---- MODULE Spec2Model ----
(***************************************************************************)
(* Model of the k3s server bootstrap, package deps (GenServerDeps and the  *)
(* functions it calls).  The state is the data directory (one entry per    *)
(* file of the runtime layout), the control configuration, the clock and   *)
(* the position of the running bootstrap inside GenServerDeps.  Between    *)
(* runs an administrator may remove or replace CA files, change the SAN    *)
(* list, and time may pass; inside a run any fallible call may return an   *)
(* error, which aborts the run.                                            *)
(***************************************************************************)
EXTENDS Integers, Sequences, FiniteSets, TLC

\* ------------------------------------------------------------------ bounds
MaxRuns == 3
MaxEnv == 1
MaxFails == 1
MaxTime == 3

\* config.CertificateRenewDays and the validity NewSignedCert gives a leaf,
\* in clock ticks of the model.
CertificateRenewDays == 1
CertValidity == 3

\* ------------------------------------------------------------------ layout
\* CreateRuntimeCertFiles: the paths, relative to config.DataDir.
CAs == {"client", "server", "request-header", "etcd-server", "etcd-peer"}

CACert(ca) ==
    CASE ca = "client" -> "tls/client-ca.crt"
      [] ca = "server" -> "tls/server-ca.crt"
      [] ca = "request-header" -> "tls/request-header-ca.crt"
      [] ca = "etcd-server" -> "tls/etcd/server-ca.crt"
      [] ca = "etcd-peer" -> "tls/etcd/peer-ca.crt"

CAKey(ca) ==
    CASE ca = "client" -> "tls/client-ca.key"
      [] ca = "server" -> "tls/server-ca.key"
      [] ca = "request-header" -> "tls/request-header-ca.key"
      [] ca = "etcd-server" -> "tls/etcd/server-ca.key"
      [] ca = "etcd-peer" -> "tls/etcd/peer-ca.key"

\* The common-name prefix each CA is created with (version.Program is k3s).
CAPrefix(ca) ==
    CASE ca = "client" -> "k3s-client"
      [] ca = "server" -> "k3s-server"
      [] ca = "request-header" -> "k3s-request-header"
      [] ca = "etcd-server" -> "etcd-server"
      [] ca = "etcd-peer" -> "etcd-peer"

TokenCA == "tls/token-ca.crt"
TokenCAKey == "tls/token-ca.key"
SigningClientCA == "tls/client-ca.nochain.crt"
SigningServerCA == "tls/server-ca.nochain.crt"
ServiceKey == "tls/service.key"
ServiceCurrentKey == "tls/service.current.key"
PasswdFile == "cred/passwd"
IPSECKey == "cred/ipsec.psk"
EncryptionConfig == "cred/encryption-config.json"
EncryptionHash == "cred/encryption-state.json"
EgressSelectorConfig == "etc/egress-selector-config.yaml"
CloudControllerConfig == "etc/cloud-config.yaml"
ClientKubeProxyCert == "tls/client-kube-proxy.crt"
ClientK3sControllerCert == "tls/client-k3s-controller.crt"
ClientKubeProxyKey == "tls/client-kube-proxy.key"
ClientK3sControllerKey == "tls/client-k3s-controller.key"
ClientKubeletKey == "tls/client-kubelet.key"
ServingKubeletKey == "tls/serving-kubelet.key"

\* The leaves GenServerDeps issues: subject, SAN source, usages, issuing CA,
\* files, and the kubeconfig written for the role ("" when there is none).
Masters == {"system:masters"}

Leaf(cn, org, alt, use, ca, crt, key, kube) ==
    [cn |-> cn, org |-> org, alt |-> alt, use |-> use, ca |-> ca,
     crt |-> crt, key |-> key, kube |-> kube]

Leaves ==
    [admin |-> Leaf("system:admin", Masters, "none", {"client"}, "client",
                  "tls/client-admin.crt", "tls/client-admin.key", "cred/admin.kubeconfig"),
     supervisor |-> Leaf("system:k3s-supervisor", Masters, "none", {"client"}, "client",
                  "tls/client-supervisor.crt", "tls/client-supervisor.key",
                  "cred/supervisor.kubeconfig"),
     controller |-> Leaf("system:kube-controller-manager", {}, "none", {"client"}, "client",
                  "tls/client-controller.crt", "tls/client-controller.key",
                  "cred/controller.kubeconfig"),
     scheduler |-> Leaf("system:kube-scheduler", {}, "none", {"client"}, "client",
                  "tls/client-scheduler.crt", "tls/client-scheduler.key",
                  "cred/scheduler.kubeconfig"),
     apiserver |-> Leaf("system:apiserver", Masters, "none", {"client"}, "client",
                  "tls/client-kube-apiserver.crt", "tls/client-kube-apiserver.key",
                  "cred/api-server.kubeconfig"),
     cloudcontroller |-> Leaf("k3s-cloud-controller-manager", {}, "none", {"client"}, "client",
                  "tls/client-k3s-cloud-controller.crt", "tls/client-k3s-cloud-controller.key",
                  "cred/cloud-controller.kubeconfig"),
     servingapi |-> Leaf("kube-apiserver", {}, "apiserver", {"server"}, "server",
                  "tls/serving-kube-apiserver.crt", "tls/serving-kube-apiserver.key", ""),
     servingscheduler |-> Leaf("kube-scheduler", {}, "local", {"server"}, "server",
                  "tls/kube-scheduler/kube-scheduler.crt",
                  "tls/kube-scheduler/kube-scheduler.key", ""),
     servingcontroller |-> Leaf("kube-controller-manager", {}, "local", {"server"}, "server",
                  "tls/kube-controller-manager/kube-controller-manager.crt",
                  "tls/kube-controller-manager/kube-controller-manager.key", ""),
     authproxy |-> Leaf("system:auth-proxy", {}, "none", {"client"}, "request-header",
                  "tls/client-auth-proxy.crt", "tls/client-auth-proxy.key", ""),
     etcdclient |-> Leaf("etcd-client", {}, "none", {"client"}, "etcd-server",
                  "tls/etcd/client.crt", "tls/etcd/client.key", ""),
     etcdpeer |-> Leaf("etcd-peer", {}, "etcd", {"server", "client"}, "etcd-peer",
                  "tls/etcd/peer-server-client.crt", "tls/etcd/peer-server-client.key", ""),
     etcdserver |-> Leaf("etcd-server", {}, "etcd", {"server", "client"}, "etcd-server",
                  "tls/etcd/server-client.crt", "tls/etcd/server-client.key", "")]

LeafNames == DOMAIN Leaves
KubeRoles == {l \in LeafNames : Leaves[l].kube # ""}
KeyOnlyFiles == {ClientKubeProxyKey, ClientK3sControllerKey, ClientKubeletKey, ServingKubeletKey}

Files ==
    {CACert(ca) : ca \in CAs} \cup {CAKey(ca) : ca \in CAs}
    \cup {Leaves[l].crt : l \in LeafNames} \cup {Leaves[l].key : l \in LeafNames}
    \cup {Leaves[l].kube : l \in KubeRoles} \cup KeyOnlyFiles
    \cup {TokenCA, TokenCAKey, SigningClientCA, SigningServerCA, ServiceKey,
          ServiceCurrentKey, PasswdFile, IPSECKey, EncryptionConfig, EncryptionHash,
          EgressSelectorConfig, CloudControllerConfig, ClientKubeProxyCert,
          ClientK3sControllerCert}

\* ------------------------------------------------------------------ program
\* The calls of GenServerDeps in the order the code makes them: one entry per
\* call site of genCerts' four functions, then the remaining steps.
Step(op, a) == [op |-> op, a |-> a]

Prog ==
    << Step("cleanup", ""),
       Step("ca", "client"), Step("nochain", "client"),
       Step("leaf", "admin"), Step("kubeconfig", "admin"),
       Step("leaf", "supervisor"), Step("kubeconfig", "supervisor"),
       Step("leaf", "controller"), Step("kubeconfig", "controller"),
       Step("leaf", "scheduler"), Step("kubeconfig", "scheduler"),
       Step("leaf", "apiserver"), Step("kubeconfig", "apiserver"),
       Step("keyonly", ClientKubeProxyKey), Step("keyonly", ClientK3sControllerKey),
       Step("keyonly", ClientKubeletKey),
       Step("leaf", "cloudcontroller"), Step("kubeconfig", "cloudcontroller"),
       Step("serverca", "server"),
       Step("leaf", "servingapi"), Step("keyonly", ServingKubeletKey),
       Step("leaf", "servingscheduler"), Step("leaf", "servingcontroller"),
       Step("ca", "request-header"), Step("leaf", "authproxy"),
       Step("ca", "etcd-server"), Step("leaf", "etcdclient"),
       Step("ca", "etcd-peer"), Step("leaf", "etcdpeer"), Step("leaf", "etcdserver"),
       Step("serviceaccount", ""), Step("users", ""), Step("psk", ""),
       Step("enc", ""), Step("egress", ""), Step("cloud", ""), Step("tokens", "") >>

NSteps == Len(Prog)

VARIABLES
    fs,        \* file -> content (NoFile when absent)
    mode,      \* file -> permission bits of the inode ("" when absent)
    links,     \* which server-ca files share their inode with the token-ca files
    cfg,       \* config.Control
    now,       \* the clock
    run,       \* number of GenServerDeps runs started
    pc,        \* 0 between runs, else the index in Prog of the next call
    regen,     \* the local variable regen of the running gen*Certs function
    certGen,   \* the local variable certGen of genClientCerts
    result,    \* how the last run ended: "none", "ok", "error", "unsupported"
    failedAt,  \* the step an aborted run failed in (0 otherwise)
    written,   \* files the current (or last) run created, truncated or rewrote
    startFs,   \* fs when the current (or last) run started
    startNow,  \* the clock when the current (or last) run started
    changed,   \* the administrator changed a file or the configuration since the last run ended
    consec,    \* the current (or last) run started after a successful one with nothing changed between
    encIO,     \* files genEncryptionConfigAndState touched in its last call
    rt,        \* the runtime's in-memory tokens
    envLeft,   \* administrator actions still to come
    faultsLeft \* I/O errors still to come

vars == <<fs, mode, links, cfg, now, run, pc, regen, certGen, result, failedAt,
          written, startFs, startNow, changed, consec, encIO, rt, envLeft, faultsLeft>>

\* ------------------------------------------------------------------ contents
NoFile == [t |-> "none"]
KeyFile(ids) == [t |-> "key", ids |-> ids]
CertFile(chain) == [t |-> "certs", chain |-> chain]

\* A generated private key: no two generations give the same key.  A key file
\* is generated at most once per run, so (file, run) names the generation.
NewPrivateKey(f, r) == [f |-> f, r |-> r]

\* The subject key identifier x509 derives from a public key.
SubjectKeyId(key) == [ski |-> key]

Cert(cn, org, dns, ips, use, notAfter, pub, aki, signer, isCA) ==
    [cn |-> cn, org |-> org, dns |-> dns, ips |-> ips, use |-> use,
     notAfter |-> notAfter, pub |-> pub, ski |-> SubjectKeyId(pub), aki |-> aki,
     signer |-> signer, isCA |-> isCA]

\* certutil.NewSelfSignedCACert: a ten-year CA certificate for the key.
NewSelfSignedCACert(cn, key, t) ==
    Cert(cn, {}, {}, {}, {}, t + 10 * CertValidity, key, SubjectKeyId(key), key, TRUE)

\* certutil.NewSignedCert: the authority key identifier is the subject key
\* identifier of the CA certificate signed under, the signature the CA key's.
NewSignedCert(cn, org, alt, use, key, caCert, caKey, t) ==
    Cert(cn, org, alt.dns, alt.ips, use, t + CertValidity, key, caCert.ski, caKey, FALSE)

\* ------------------------------------------------------------------ file system
\* A disk is [fs, mode, written].  exists: os.Stat succeeds on every file.
exists(d, files) == \A f \in files : d.fs[f].t # "none"

\* The paths that name the same inode as f (os.Link of the token-ca files).
Alias(l, f) ==
    IF "crt" \in l /\ f \in {TokenCA, CACert("server")} THEN {TokenCA, CACert("server")}
    ELSE IF "key" \in l /\ f \in {TokenCAKey, CAKey("server")}
         THEN {TokenCAKey, CAKey("server")}
         ELSE {f}

\* os.WriteFile and os.OpenFile(O_CREATE|O_TRUNC): the content of the inode is
\* replaced; perm applies only when the file is created.
WriteFile(d, l, f, c, perm) ==
    [fs |-> [g \in Files |-> IF g \in Alias(l, f) THEN c ELSE d.fs[g]],
     mode |-> IF d.fs[f].t # "none" THEN d.mode ELSE [d.mode EXCEPT ![f] = perm],
     written |-> d.written \cup {f}]

\* util.AtomicWrite: a temporary file with perm, renamed into place.
AtomicWrite(d, f, c, perm) ==
    [fs |-> [d.fs EXCEPT ![f] = c],
     mode |-> [d.mode EXCEPT ![f] = perm],
     written |-> d.written \cup {f}]

\* os.Remove.
Remove(d, f) ==
    [fs |-> [d.fs EXCEPT ![f] = NoFile],
     mode |-> [d.mode EXCEPT ![f] = ""],
     written |-> d.written]

\* os.Link(old, new): new names old's inode.
Link(d, old, new) ==
    [fs |-> [d.fs EXCEPT ![new] = d.fs[old]],
     mode |-> [d.mode EXCEPT ![new] = d.mode[old]],
     written |-> d.written \cup {new}]

\* certutil.WriteCert (0644) and certutil.WriteKey (0600).
WriteCert(d, l, f, chain) == WriteFile(d, l, f, CertFile(chain), "0644")
WriteKey(d, l, f, ids) == WriteFile(d, l, f, KeyFile(ids), "0600")

\* certutil.CertsFromFile succeeds when the file holds at least one certificate.
Readable(d, f) == d.fs[f].t = "certs" /\ Len(d.fs[f].chain) > 0
CertsFromFile(d, f) == d.fs[f].chain

\* certutil.LoadOrGenerateKeyFile(keyFile, force): the first key of the file,
\* or a new key written to the file when forced or the file is missing.
LoadOrGenerateKeyFile(d, l, keyFile, force, r) ==
    IF ~force /\ d.fs[keyFile].t = "key"
    THEN [d |-> d, key |-> d.fs[keyFile].ids[1], generated |-> FALSE]
    ELSE [d |-> WriteKey(d, l, keyFile, <<NewPrivateKey(keyFile, r)>>),
          key |-> NewPrivateKey(keyFile, r), generated |-> TRUE]

\* LoadOrGenerateKeyFile's error: a key file that exists and holds no key.
KeyLoadFails(d, keyFile, force) == ~force /\ d.fs[keyFile].t \notin {"none", "key"}

Disk == [fs |-> fs, mode |-> mode, written |-> written]

\* ------------------------------------------------------------------ ChangeDetector
\* net.ParseIP followed by IP.String(): the canonical text of an address, ""
\* when the text is no address (the entry is then a DNS name).
ParseIP(s) ==
    CASE s = "127.0.0.1" -> "127.0.0.1"
      [] s = "::1" -> "::1"
      [] s = "0:0:0:0:0:0:0:1" -> "::1"
      [] OTHER -> ""

NoAltNames == [dns |-> {}, ips |-> {}]

addSANs(altNames, sans) ==
    [dns |-> altNames.dns \cup {s \in sans : ParseIP(s) = ""},
     ips |-> altNames.ips \cup {ParseIP(s) : s \in {x \in sans : ParseIP(x) # ""}}]

\* The altNames each call site builds.
AltNamesOf(kind, c) ==
    CASE kind = "apiserver" ->
           addSANs([dns |-> {"kubernetes", "kubernetes.default", "kubernetes.default.svc",
                             "kubernetes.default.svc." \o c.ClusterDomain},
                    ips |-> {}], c.SANs)
      [] kind = "local" -> addSANs(NoAltNames, {"localhost", "127.0.0.1", "::1"})
      [] kind = "etcd" -> addSANs([dns |-> {"kine.sock"}, ips |-> {}], c.SANs)
      [] OTHER -> NoAltNames

\* expired with the comparison turned around.
expiredInverted(d, certFile, t) ==
    IF ~Readable(d, certFile) THEN FALSE
    ELSE CertsFromFile(d, certFile)[1].notAfter - t >= CertificateRenewDays

\* expired that takes a certificate it cannot read for an expired one.
expiredUnreadable(d, certFile, t) ==
    IF ~Readable(d, certFile) THEN TRUE
    ELSE CertsFromFile(d, certFile)[1].notAfter - t <= CertificateRenewDays

\* certutil.IsCertExpired: not-after within CertificateRenewDays of now.
expired(d, certFile, t) ==
    IF ~Readable(d, certFile) THEN FALSE
    ELSE CertsFromFile(d, certFile)[1].notAfter - t <= CertificateRenewDays

\* fieldsChanged without the comparison of the authority key identifier.
fieldsChangedNoAuthority(d, certFile, commonName, organization, sans, caCertFile) ==
    IF ~Readable(d, certFile) THEN FALSE
    ELSE LET c == CertsFromFile(d, certFile)[1] IN
         IF c.cn # commonName THEN TRUE
         ELSE IF c.org # organization THEN TRUE
         ELSE IF ~(sans.dns \subseteq c.dns) THEN TRUE
         ELSE \E ip \in sans.ips : ip \notin c.ips

\* fieldsChanged that compares the organization by containment, as the SANs.
fieldsChangedOrgContained(d, certFile, commonName, organization, sans, caCertFile) ==
    IF ~Readable(d, certFile) THEN FALSE
    ELSE LET c == CertsFromFile(d, certFile)[1] IN
         IF c.cn # commonName THEN TRUE
         ELSE IF ~(organization \subseteq c.org) THEN TRUE
         ELSE IF ~(sans.dns \subseteq c.dns) THEN TRUE
         ELSE IF \E ip \in sans.ips : ip \notin c.ips THEN TRUE
         ELSE IF ~Readable(d, caCertFile) THEN FALSE
         ELSE c.aki # CertsFromFile(d, caCertFile)[1].ski

fieldsChanged(d, certFile, commonName, organization, sans, caCertFile) ==
    IF ~Readable(d, certFile) THEN FALSE
    ELSE LET c == CertsFromFile(d, certFile)[1] IN
         IF c.cn # commonName THEN TRUE
         ELSE IF c.org # organization THEN TRUE
         ELSE IF ~(sans.dns \subseteq c.dns) THEN TRUE
         ELSE IF \E ip \in sans.ips : ip \notin c.ips THEN TRUE
         ELSE IF ~Readable(d, caCertFile) THEN FALSE
         ELSE c.aki # CertsFromFile(d, caCertFile)[1].ski

\* ------------------------------------------------------------------ CAHierarchyManager
\* The result of a call: the disk it leaves, its boolean result, whether it
\* returned an error, and whether the injected fault can strike on this path.
\* fault: "none"; "early": the first fallible call fails; "late": the last
\* write fails; "last": the write after the inner call fails.
Ret(d, flag, err, possible) == [d |-> d, flag |-> flag, err |-> err, possible |-> possible]

\* createSigningCertKey that generates the CA key anew on every issue.
createSigningCertKeyNewKey(d, l, ca, t, r, fault) ==
    IF exists(d, {CACert(ca), CAKey(ca)}) THEN Ret(d, FALSE, FALSE, fault = "none")
    ELSE IF fault = "early" THEN Ret(d, FALSE, TRUE, TRUE)
    ELSE LET k == LoadOrGenerateKeyFile(d, l, CAKey(ca), TRUE, r)
             cert == NewSelfSignedCACert(CAPrefix(ca) \o "-ca@" \o ToString(t), k.key, t)
         IN IF fault = "late" THEN Ret(k.d, FALSE, TRUE, TRUE)
            ELSE Ret(WriteCert(k.d, l, CACert(ca), <<cert>>), TRUE, FALSE, fault = "none")

\* createSigningCertKey that issues the CA certificate on every call.
createSigningCertKeyAlways(d, l, ca, t, r, fault) ==
    IF fault = "early" THEN Ret(d, FALSE, TRUE, TRUE)
    ELSE IF KeyLoadFails(d, CAKey(ca), FALSE) THEN Ret(d, FALSE, TRUE, fault = "none")
    ELSE LET k == LoadOrGenerateKeyFile(d, l, CAKey(ca), FALSE, r)
             cert == NewSelfSignedCACert(CAPrefix(ca) \o "-ca@" \o ToString(t), k.key, t)
         IN IF fault = "late" THEN Ret(k.d, FALSE, TRUE, TRUE)
            ELSE Ret(WriteCert(k.d, l, CACert(ca), <<cert>>), TRUE, FALSE, fault = "none")

createSigningCertKey(d, l, ca, t, r, fault) ==
    IF exists(d, {CACert(ca), CAKey(ca)}) THEN Ret(d, FALSE, FALSE, fault = "none")
    ELSE IF fault = "early" THEN Ret(d, FALSE, TRUE, TRUE)
    ELSE IF KeyLoadFails(d, CAKey(ca), FALSE) THEN Ret(d, FALSE, TRUE, fault = "none")
    ELSE LET k == LoadOrGenerateKeyFile(d, l, CAKey(ca), FALSE, r)
             cert == NewSelfSignedCACert(CAPrefix(ca) \o "-ca@" \o ToString(t), k.key, t)
         IN IF fault = "late" THEN Ret(k.d, FALSE, TRUE, TRUE)
            ELSE Ret(WriteCert(k.d, l, CACert(ca), <<cert>>), TRUE, FALSE, fault = "none")

\* The leaf-only copy of a CA file: CertsFromFile, then WriteCert of certs[0].
writeNoChain(d, l, caCertFile, dest, fault) ==
    IF ~Readable(d, caCertFile) THEN Ret(d, FALSE, TRUE, fault = "none")
    ELSE IF fault # "none" THEN Ret(d, FALSE, TRUE, fault = "early")
    ELSE Ret(WriteCert(d, l, dest, <<CertsFromFile(d, caCertFile)[1]>>), FALSE, FALSE, TRUE)

\* createServerSigningCertKey that reports the linked CA as not created.
createServerSigningCertKeyQuiet(d, l, t, r, fault) ==
    IF exists(d, {TokenCA, TokenCAKey}) /\ ~exists(d, {CACert("server")})
       /\ ~exists(d, {CAKey("server")})
    THEN CASE fault = "early" -> [ret |-> Ret(d, FALSE, TRUE, TRUE), links |-> l]
           [] fault = "late" ->
                [ret |-> Ret(Link(d, TokenCA, CACert("server")), FALSE, TRUE, TRUE),
                 links |-> l \cup {"crt"}]
           [] fault = "none" ->
                [ret |-> Ret(Link(Link(d, TokenCA, CACert("server")),
                                  TokenCAKey, CAKey("server")), FALSE, FALSE, TRUE),
                 links |-> {"crt", "key"}]
           [] OTHER -> [ret |-> Ret(d, FALSE, TRUE, FALSE), links |-> l]
    ELSE LET c == createSigningCertKey(d, l, "server", t, r,
                                       IF fault = "last" THEN "none" ELSE fault)
         IN IF c.err \/ ~c.possible THEN [ret |-> c, links |-> l]
            ELSE LET n == writeNoChain(c.d, l, CACert("server"), SigningServerCA,
                                       IF fault = "last" THEN "early" ELSE "none")
                 IN [ret |-> Ret(n.d, c.flag, n.err, n.possible), links |-> l]

\* createServerSigningCertKey also returns the links it leaves.
createServerSigningCertKey(d, l, t, r, fault) ==
    IF exists(d, {TokenCA, TokenCAKey}) /\ ~exists(d, {CACert("server")})
       /\ ~exists(d, {CAKey("server")})
    THEN CASE fault = "early" -> [ret |-> Ret(d, FALSE, TRUE, TRUE), links |-> l]
           [] fault = "late" ->
                [ret |-> Ret(Link(d, TokenCA, CACert("server")), FALSE, TRUE, TRUE),
                 links |-> l \cup {"crt"}]
           [] fault = "none" ->
                [ret |-> Ret(Link(Link(d, TokenCA, CACert("server")),
                                  TokenCAKey, CAKey("server")), TRUE, FALSE, TRUE),
                 links |-> {"crt", "key"}]
           [] OTHER -> [ret |-> Ret(d, FALSE, TRUE, FALSE), links |-> l]
    ELSE LET c == createSigningCertKey(d, l, "server", t, r,
                                       IF fault = "last" THEN "none" ELSE fault)
         IN IF c.err \/ ~c.possible THEN [ret |-> c, links |-> l]
            ELSE LET n == writeNoChain(c.d, l, CACert("server"), SigningServerCA,
                                       IF fault = "last" THEN "early" ELSE "none")
                 IN [ret |-> Ret(n.d, c.flag, n.err, n.possible), links |-> l]

\* ------------------------------------------------------------------ LeafCertFactory
NeedRegen(d, rg, L, alt, t) ==
    rg \/ expired(d, L.crt, t) \/ fieldsChanged(d, L.crt, L.cn, L.org, alt, CACert(L.ca))

\* createClientCertKey that generates a new key whenever it issues.
createClientCertKeyNewKey(d, l, rg, L, alt, t, r, fault) ==
    LET rgn == NeedRegen(d, rg, L, alt, t) IN
    IF ~rgn /\ exists(d, {L.crt, L.key}) THEN Ret(d, FALSE, FALSE, fault = "none")
    ELSE IF d.fs[CAKey(L.ca)].t # "key" \/ ~Readable(d, CACert(L.ca))
         THEN Ret(d, FALSE, TRUE, fault = "none")
    ELSE IF fault = "early" THEN Ret(d, FALSE, TRUE, TRUE)
    ELSE LET caKey == d.fs[CAKey(L.ca)].ids[1]
             caCerts == CertsFromFile(d, CACert(L.ca))
             k == LoadOrGenerateKeyFile(d, l, L.key, TRUE, r)
             cert == NewSignedCert(L.cn, L.org, alt, L.use, k.key, caCerts[1], caKey, t)
         IN IF fault = "late" THEN Ret(k.d, FALSE, TRUE, TRUE)
            ELSE Ret(WriteCert(k.d, l, L.crt, <<cert>> \o caCerts), TRUE, FALSE,
                     fault = "none")

createClientCertKey(d, l, rg, L, alt, t, r, fault) ==
    LET rgn == NeedRegen(d, rg, L, alt, t) IN
    IF ~rgn /\ exists(d, {L.crt, L.key}) THEN Ret(d, FALSE, FALSE, fault = "none")
    ELSE IF d.fs[CAKey(L.ca)].t # "key" \/ ~Readable(d, CACert(L.ca))
            \/ KeyLoadFails(d, L.key, rgn)
         THEN Ret(d, FALSE, TRUE, fault = "none")
    ELSE IF fault = "early" THEN Ret(d, FALSE, TRUE, TRUE)
    ELSE LET caKey == d.fs[CAKey(L.ca)].ids[1]
             caCerts == CertsFromFile(d, CACert(L.ca))
             k == LoadOrGenerateKeyFile(d, l, L.key, rgn, r)
             cert == NewSignedCert(L.cn, L.org, alt, L.use, k.key, caCerts[1], caKey, t)
         IN IF fault = "late" THEN Ret(k.d, FALSE, TRUE, TRUE)
            ELSE Ret(WriteCert(k.d, l, L.crt, <<cert>> \o caCerts), TRUE, FALSE,
                     fault = "none")

\* The key-only leaves: LoadOrGenerateKeyFile(keyFile, regen) alone.
\* The key-only path that never replaces an existing key.
ensureKeyFileKeep(d, l, keyFile, rg, r, fault) ==
    IF KeyLoadFails(d, keyFile, FALSE) THEN Ret(d, FALSE, TRUE, fault = "none")
    ELSE IF fault # "none" THEN Ret(d, FALSE, TRUE, fault = "early")
    ELSE Ret(LoadOrGenerateKeyFile(d, l, keyFile, FALSE, r).d, FALSE, FALSE, TRUE)

ensureKeyFile(d, l, keyFile, rg, r, fault) ==
    IF KeyLoadFails(d, keyFile, rg) THEN Ret(d, FALSE, TRUE, fault = "none")
    ELSE IF fault # "none" THEN Ret(d, FALSE, TRUE, fault = "early")
    ELSE Ret(LoadOrGenerateKeyFile(d, l, keyFile, rg, r).d, FALSE, FALSE, TRUE)

\* ------------------------------------------------------------------ KubeconfigWriter
APIEndpoint == "https://127.0.0.1:6443"

KubeConfig(d, l, dest, url, caCert, clientCert, clientKey, fault) ==
    CASE fault = "none" ->
           Ret(WriteFile(d, l, dest,
                         [t |-> "kubeconfig", server |-> url, ca |-> caCert,
                          cert |-> clientCert, key |-> clientKey], "0600"),
               FALSE, FALSE, TRUE)
      [] fault = "early" -> Ret(d, FALSE, TRUE, TRUE)
      [] fault = "late" -> Ret(WriteFile(d, l, dest, [t |-> "empty"], "0600"), FALSE, TRUE, TRUE)
      [] OTHER -> Ret(d, FALSE, TRUE, FALSE)

cleanupLegacyCerts(d, fault) ==
    IF fault # "none" THEN Ret(d, FALSE, TRUE, fault = "early")
    ELSE Ret(Remove(Remove(d, ClientKubeProxyCert), ClientK3sControllerCert),
             FALSE, FALSE, TRUE)

\* genServiceAccount that copies every key of the signing key file.
genServiceAccountAllKeys(d, l, r, fault) ==
    IF fault = "early" THEN Ret(d, FALSE, TRUE, TRUE)
    ELSE LET d1 == IF d.fs[ServiceKey].t = "none"
                   THEN WriteKey(d, l, ServiceKey, <<NewPrivateKey(ServiceKey, r)>>)
                   ELSE d
         IN IF d1.fs[ServiceKey].t # "key" THEN Ret(d1, FALSE, TRUE, fault = "none")
            ELSE IF fault = "late" THEN Ret(d1, FALSE, TRUE, TRUE)
            ELSE Ret(WriteKey(d1, l, ServiceCurrentKey, d1.fs[ServiceKey].ids),
                     FALSE, FALSE, fault = "none")

genServiceAccount(d, l, r, fault) ==
    IF fault = "early" THEN Ret(d, FALSE, TRUE, TRUE)
    ELSE LET d1 == IF d.fs[ServiceKey].t = "none"
                   THEN WriteKey(d, l, ServiceKey, <<NewPrivateKey(ServiceKey, r)>>)
                   ELSE d
         IN IF d1.fs[ServiceKey].t # "key" THEN Ret(d1, FALSE, TRUE, fault = "none")
            ELSE IF fault = "late" THEN Ret(d1, FALSE, TRUE, TRUE)
            ELSE Ret(WriteKey(d1, l, ServiceCurrentKey, <<d1.fs[ServiceKey].ids[1]>>),
                     FALSE, FALSE, fault = "none")

\* ------------------------------------------------------------------ CredentialStore
\* A token is user:pass, or pass alone (user = ""); the empty string is Tok("", "").
Tok(user, pass) == [user |-> user, pass |-> pass]
EmptyTok == Tok("", "")

\* util.Random: a value no other call returns.
Random(tag, r) == Tok("", tag \o ToString(r))

\* clientaccess.ParseUsernamePassword: ok for a token of the form user:pass.
ParseOk(token) == token.user # "" /\ token.pass # ""
ParsePassword(token) == Tok("", token.pass)

NoEntry == [present |-> FALSE, pass |-> EmptyTok, role |-> ""]
EmptyPasswd == [names |-> [n \in {"node", "server"} |-> NoEntry], changed |-> FALSE]

\* passwd.Read: the table of the file, empty when the file does not exist.
PasswdRead(d, f) ==
    IF d.fs[f].t = "passwd" THEN [names |-> d.fs[f].names, changed |-> FALSE] ELSE EmptyPasswd

\* Passwd.Pass: the secret of the entry, "" when there is none.
Pass(p, name) == p.names[name].pass

\* Passwd.EnsureUser: insert, or update the secret and the role when they differ.
EnsureUser(p, name, role, passwd, r) ==
    LET e == p.names[name] IN
    IF e.present
    THEN LET pw == IF passwd # EmptyTok THEN passwd ELSE e.pass
             e2 == [present |-> TRUE, pass |-> pw, role |-> role]
         IN [names |-> [p.names EXCEPT ![name] = e2], changed |-> p.changed \/ e2 # e]
    ELSE LET pw == IF passwd # EmptyTok THEN passwd ELSE Random("user-" \o name, r)
         IN [names |-> [p.names EXCEPT ![name] = [present |-> TRUE, pass |-> pw, role |-> role]],
             changed |-> TRUE]

\* Passwd.Write: the table is serialized back after a mutation, by rename.
PasswdWrite(d, p, f) ==
    IF p.changed THEN AtomicWrite(d, f, [t |-> "passwd", names |-> p.names], "0600") ELSE d

\* migratePassword without the test that the server entry has no secret.
migratePasswordAlways(p, r) ==
    IF Pass(p, "node") # EmptyTok
    THEN EnsureUser(p, "server", "k3s:server", Pass(p, "node"), r)
    ELSE p

migratePassword(p, r) ==
    LET server == Pass(p, "server")
        node == Pass(p, "node")
    IN IF server = EmptyTok /\ node # EmptyTok
       THEN EnsureUser(p, "server", "k3s:server", node, r)
       ELSE p

\* getServerPass that never reads the stored server secret.
getServerPassFresh(p, c, r) ==
    IF c.Token = EmptyTok THEN Random("server-", r) ELSE c.Token

getServerPass(p, c, r) ==
    LET s1 == IF c.Token = EmptyTok THEN Pass(p, "server") ELSE c.Token
    IN IF s1 = EmptyTok THEN Random("server-", r) ELSE s1

\* getNodePass that leaves the node secret to be generated when no agent
\* token is configured.
getNodePassOwn(c, serverPass) == c.AgentToken

\* getNodePass that hands on the server token as it is.
getNodePassWhole(c, serverPass) ==
    IF c.AgentToken = EmptyTok THEN serverPass ELSE c.AgentToken

getNodePass(c, serverPass) ==
    IF c.AgentToken = EmptyTok
    THEN IF ParseOk(serverPass) THEN ParsePassword(serverPass) ELSE serverPass
    ELSE c.AgentToken

\* The table genUsers computes from the one on disk.
usersTable(d, c, r) ==
    LET p0 == migratePassword(PasswdRead(d, PasswdFile), r)
        serverPass == getServerPass(p0, c, r)
        nodePass == getNodePass(c, serverPass)
        p1 == EnsureUser(p0, "node", "k3s:agent", nodePass, r)
    IN EnsureUser(p1, "server", "k3s:server", serverPass, r)

genUsers(d, c, r, fault) ==
    IF d.fs[PasswdFile].t \notin {"none", "passwd"} THEN Ret(d, FALSE, TRUE, fault = "none")
    ELSE IF fault # "none" THEN Ret(d, FALSE, TRUE, fault = "early")
    ELSE Ret(PasswdWrite(d, usersTable(d, c, r), PasswdFile), FALSE, FALSE, TRUE)

\* readTokens: the runtime's tokens, from the table read back.
readTokens(d, old) ==
    LET p == PasswdRead(d, PasswdFile) IN
    [AgentToken |-> IF p.names["node"].present
                    THEN [prefix |-> "node:", tok |-> Pass(p, "node")] ELSE old.AgentToken,
     ServerToken |-> IF p.names["server"].present
                     THEN [prefix |-> "server:", tok |-> Pass(p, "server")] ELSE old.ServerToken]

NoRuntime == [AgentToken |-> [prefix |-> "", tok |-> EmptyTok],
              ServerToken |-> [prefix |-> "", tok |-> EmptyTok]]

\* genEncryptedNetworkInfo: the pre-shared key is read when the file is not
\* empty, else generated and written.
genEncryptedNetworkInfo(d, l, r, fault) ==
    IF fault # "none" THEN Ret(d, FALSE, TRUE, fault = "early")
    ELSE IF d.fs[IPSECKey].t = "text" THEN Ret(d, FALSE, FALSE, TRUE)
    ELSE Ret(WriteFile(d, l, IPSECKey, [t |-> "text", s |-> <<Random("psk-", r), "\n">>], "0600"),
             FALSE, FALSE, TRUE)

\* ------------------------------------------------------------------ EncryptionConfigManager
AESCBCProvider == "aescbc"
SecretBoxProvider == "secretbox"

\* sha256.Sum256 and hex.EncodeToString of the bytes of a document.
Sha256Hex(bytes) == [sha256 |-> bytes]

\* json.Marshal: the bytes of a document.
Marshal(doc) == [t |-> "json", doc |-> doc]

HashRecord(bytes) == [t |-> "text", s |-> <<"start-", Sha256Hex(bytes)>>]

Identity == [provider |-> "identity", keys |-> <<>>]

\* encConfig with the identity provider first.
encConfigIdentityFirst(provider, keyName, key) ==
    [kind |-> "EncryptionConfiguration", apiVersion |-> "apiserver.config.k8s.io/v1",
     resources |-> <<[resources |-> <<"secrets">>,
                      providers |-> <<Identity,
                                      [provider |-> provider,
                                       keys |-> <<[name |-> keyName, secret |-> key]>>]>>]>>]

encConfig(provider, keyName, key) ==
    [kind |-> "EncryptionConfiguration", apiVersion |-> "apiserver.config.k8s.io/v1",
     resources |-> <<[resources |-> <<"secrets">>,
                      providers |-> <<[provider |-> provider,
                                       keys |-> <<[name |-> keyName, secret |-> key]>>],
                                      Identity>>]>>]

\* The guards of genEncryptionConfigAndState, each after the variant that
\* forgets it.
encryptionAlwaysEnabled(c) == TRUE
encryptionEnabled(c) == c.EncryptSecrets

anyProvider(c) == TRUE
supportedProvider(c) == c.EncryptProvider \in {AESCBCProvider, SecretBoxProvider}

encryptionConfigNeverExists(d) == FALSE
encryptionConfigExists(d) == d.fs[EncryptionConfig].t = "json"

\* The result also names the kind of error and the files the call touched.
EncRet(ret, kind, io) == [ret |-> ret, kind |-> kind, io |-> io]

genEncryptionConfigAndState(d, l, c, r, fault) ==
    IF ~encryptionEnabled(c) THEN EncRet(Ret(d, FALSE, FALSE, fault = "none"), "", {})
    ELSE IF ~supportedProvider(c)
    THEN EncRet(Ret(d, FALSE, TRUE, fault = "none"), "unsupported", {})
    ELSE LET keyName == IF c.EncryptProvider = AESCBCProvider THEN "aescbckey"
                        ELSE "secretboxkey"
         IN
         IF encryptionConfigExists(d)
         THEN IF d.fs[EncryptionHash].t = "none"
              THEN IF fault # "none"
                   THEN EncRet(Ret(d, FALSE, TRUE, fault = "early"), "error",
                               {EncryptionConfig, EncryptionHash})
                   ELSE EncRet(Ret(WriteFile(d, l, EncryptionHash,
                                             HashRecord(d.fs[EncryptionConfig]), "0600"),
                                   FALSE, FALSE, TRUE), "",
                               {EncryptionConfig, EncryptionHash})
              ELSE EncRet(Ret(d, FALSE, FALSE, fault = "none"), "",
                          {EncryptionConfig, EncryptionHash})
         ELSE LET b == Marshal(encConfig(c.EncryptProvider, keyName,
                                         NewPrivateKey(keyName, r)))
                  d1 == AtomicWrite(d, EncryptionConfig, b, "0600")
              IN CASE fault = "early" ->
                        EncRet(Ret(d, FALSE, TRUE, TRUE), "error", {EncryptionConfig})
                   [] fault = "late" ->
                        EncRet(Ret(d1, FALSE, TRUE, TRUE), "error",
                               {EncryptionConfig, EncryptionHash})
                   [] fault = "none" ->
                        EncRet(Ret(WriteFile(d1, l, EncryptionHash, HashRecord(b), "0600"),
                                   FALSE, FALSE, TRUE), "",
                               {EncryptionConfig, EncryptionHash})
                   [] OTHER -> EncRet(Ret(d, FALSE, TRUE, FALSE), "error", {})

\* ------------------------------------------------------------------ AuxiliaryConfigGenerators
egressConfig(c) ==
    [kind |-> "EgressSelectorConfiguration", apiVersion |-> "apiserver.k8s.io/v1beta1",
     egressSelections |->
        <<[name |-> "cluster",
           connection |->
              IF c.EgressSelectorMode = "disabled"
              THEN [proxyProtocol |-> "Direct", url |-> "", caBundle |-> "",
                    clientKey |-> "", clientCert |-> ""]
              ELSE [proxyProtocol |-> "HTTPConnect", url |-> "https://127.0.0.1:6443",
                    caBundle |-> CACert("server"), clientKey |-> Leaves.apiserver.key,
                    clientCert |-> Leaves.apiserver.crt]]>>]

genEgressSelectorConfig(d, l, c, fault) ==
    IF fault # "none" THEN Ret(d, FALSE, TRUE, fault = "early")
    ELSE Ret(WriteFile(d, l, EgressSelectorConfig, Marshal(egressConfig(c)), "0600"),
             FALSE, FALSE, TRUE)

cloudConfig(c) ==
    [lbDefaultPriorityClassName |-> "system-node-critical",
     lbEnabled |-> ~c.DisableServiceLB,
     lbNamespace |-> c.ServiceLBNamespace,
     lbImage |-> IF c.SystemDefaultRegistry # ""
                 THEN c.SystemDefaultRegistry \o "/" \o "rancher/klipper-lb"
                 ELSE "rancher/klipper-lb",
     rootless |-> c.Rootless,
     nodeEnabled |-> ~c.DisableCCM]

genCloudConfig(d, l, c, fault) ==
    IF fault # "none" THEN Ret(d, FALSE, TRUE, fault = "early")
    ELSE Ret(WriteFile(d, l, CloudControllerConfig, Marshal(cloudConfig(c)), "0600"),
             FALSE, FALSE, TRUE)

\* ------------------------------------------------------------------ initial states
BaseConfig ==
    [Token |-> EmptyTok, AgentToken |-> EmptyTok, EncryptSecrets |-> FALSE,
     EncryptProvider |-> AESCBCProvider, DisableETCD |-> FALSE, SANs |-> {},
     EgressSelectorMode |-> "agent", ClusterDomain |-> "cluster.local",
     DisableServiceLB |-> FALSE, DisableCCM |-> FALSE, Rootless |-> FALSE,
     SystemDefaultRegistry |-> "", ServiceLBNamespace |-> "kube-system"]

\* A fresh data directory, and one an older version left its token-ca in.
FreshFs == [f \in Files |-> NoFile]

LegacyKey == [f |-> "legacy", r |-> 0]

LegacyFs ==
    [FreshFs EXCEPT ![TokenCA] = CertFile(<<NewSelfSignedCACert("k3s-token-ca@0", LegacyKey, 0)>>),
                    ![TokenCAKey] = KeyFile(<<LegacyKey>>)]

\* The same directory with the API server's serving leaf the older version
\* issued under the token CA, still valid.
LegacyLeafKey == [f |-> "legacy-leaf", r |-> 0]

LegacyLeafFs ==
    LET L == Leaves.servingapi
        ca == LegacyFs[TokenCA].chain
    IN [LegacyFs EXCEPT
          ![L.key] = KeyFile(<<LegacyLeafKey>>),
          ![L.crt] = CertFile(<<NewSignedCert(L.cn, L.org, AltNamesOf(L.alt, BaseConfig),
                                              L.use, LegacyLeafKey, ca[1], LegacyKey, 0)>>
                              \o ca)]

ModeOf(f) ==
    [g \in Files |-> IF f[g].t = "none" THEN ""
                     ELSE IF f[g].t = "certs" THEN "0644" ELSE "0600"]

InitAt(c, f, m, nEnv, nFaults) ==
    /\ fs = f /\ mode = m /\ links = {} /\ cfg = c
    /\ now = 0 /\ run = 0 /\ pc = 0 /\ regen = FALSE /\ certGen = FALSE
    /\ result = "none" /\ failedAt = 0 /\ written = {} /\ startFs = f /\ startNow = 0
    /\ changed = FALSE /\ consec = FALSE /\ encIO = {} /\ rt = NoRuntime
    /\ envLeft = nEnv /\ faultsLeft = nFaults

InitWith(c, f, nEnv, nFaults) == InitAt(c, f, ModeOf(f), nEnv, nFaults)

Init ==
    \E etcd \in BOOLEAN, f \in {FreshFs, LegacyFs} :
        InitWith([BaseConfig EXCEPT !.DisableETCD = etcd], f, MaxEnv, 0)

\* Bootstraps in which calls fail: every encryption setting, no administrator.
EncSettings ==
    {<<FALSE, AESCBCProvider>>, <<FALSE, "bogus">>, <<TRUE, AESCBCProvider>>,
     <<TRUE, SecretBoxProvider>>, <<TRUE, "bogus">>}

InitFaults ==
    \E e \in EncSettings, f \in {FreshFs, LegacyFs} :
        InitWith([BaseConfig EXCEPT !.EncryptSecrets = e[1], !.EncryptProvider = e[2]], f,
                 0, MaxFails)

\* Bootstraps of the directories an older version left, with failing calls.
InitLegacy ==
    \E f \in {LegacyFs, LegacyLeafFs} : InitWith(BaseConfig, f, 0, MaxFails)

\* Bootstraps over the credential tables an older version may have left.
LegacyNode == Tok("", "legacy-node-secret")
LegacyServer == Tok("", "legacy-server-secret")

Entry(pass, role) == [present |-> TRUE, pass |-> pass, role |-> role]

LegacyPasswds ==
    {[node |-> Entry(LegacyNode, "k3s:agent"), server |-> NoEntry],
     [node |-> Entry(LegacyNode, "k3s:agent"), server |-> Entry(EmptyTok, "")],
     [node |-> Entry(LegacyNode, "k3s:agent"), server |-> Entry(LegacyServer, "k3s:server")],
     [node |-> NoEntry, server |-> Entry(LegacyServer, "k3s:server")]}

PasswdFs == {FreshFs} \cup {[FreshFs EXCEPT ![PasswdFile] = [t |-> "passwd", names |-> n]] :
                             n \in LegacyPasswds}

InitUsers ==
    \E tok \in {EmptyTok, Tok("", "cluster-secret"), Tok("admin", "cluster-secret")},
       agent \in {EmptyTok, Tok("", "agent-secret")}, f \in PasswdFs :
        InitWith([BaseConfig EXCEPT !.Token = tok, !.AgentToken = agent], f, 0, 0)

\* ------------------------------------------------------------------ a run
Faults == IF faultsLeft > 0 THEN {"none", "early", "late", "last"} ELSE {"none"}

At(op) == pc > 0 /\ Prog[pc].op = op

\* The call after step i when the kubeconfig is written whether or not the
\* certificate was issued.
AfterAnyway(i, gen) ==
    LET n == i + 1 IN
    IF n <= NSteps /\ Prog[n] = Step("leaf", "etcdserver") /\ cfg.DisableETCD
    THEN n + 1
    ELSE n

\* The call after step i: a kubeconfig is written only for a certificate that
\* was issued, the etcd-server leaf only when etcd is not disabled.
After(i, gen) ==
    LET n == i + 1 IN
    IF n <= NSteps /\ Prog[n].op = "kubeconfig" /\ ~gen THEN n + 1
    ELSE IF n <= NSteps /\ Prog[n] = Step("leaf", "etcdserver") /\ cfg.DisableETCD
         THEN n + 1
         ELSE n

\* The step returned, and the run goes on after an error.
ReturnAndGoOn(r, fault, kind, next) ==
    /\ r.possible
    /\ fs' = r.d.fs /\ mode' = r.d.mode /\ written' = r.d.written
    /\ faultsLeft' = IF fault = "none" THEN faultsLeft ELSE faultsLeft - 1
    /\ pc' = next
    /\ IF r.err
       THEN result' = kind /\ failedAt' = pc
       ELSE UNCHANGED <<result, failedAt>>

\* The step returned: its writes are on disk; an error aborts the run.
Return(r, fault, kind, next) ==
    /\ r.possible
    /\ fs' = r.d.fs /\ mode' = r.d.mode /\ written' = r.d.written
    /\ faultsLeft' = IF fault = "none" THEN faultsLeft ELSE faultsLeft - 1
    /\ IF r.err
       THEN pc' = 0 /\ result' = kind /\ failedAt' = pc
       ELSE pc' = next /\ UNCHANGED <<result, failedAt>>

StartRun ==
    /\ pc = 0 /\ run < MaxRuns
    /\ run' = run + 1 /\ pc' = 1 /\ result' = "running" /\ failedAt' = 0
    /\ written' = {} /\ startFs' = fs /\ startNow' = now
    /\ consec' = (result = "ok" /\ ~changed) /\ changed' = FALSE
    /\ regen' = FALSE /\ certGen' = FALSE
    /\ UNCHANGED <<fs, mode, links, cfg, now, encIO, rt, envLeft, faultsLeft>>

Cleanup ==
    /\ At("cleanup")
    /\ \E fault \in Faults :
          Return(cleanupLegacyCerts(Disk, fault), fault, "error", After(pc, TRUE))
    /\ UNCHANGED <<links, cfg, now, run, regen, certGen, startFs, startNow, changed,
                   consec, encIO, rt, envLeft>>

CreateCA ==
    /\ At("ca")
    /\ \E fault \in Faults :
          LET r == createSigningCertKey(Disk, links, Prog[pc].a, now, run, fault)
          IN Return(r, fault, "error", After(pc, TRUE)) /\ regen' = r.flag
    /\ UNCHANGED <<links, cfg, now, run, certGen, startFs, startNow, changed, consec,
                   encIO, rt, envLeft>>

NoChain ==
    /\ At("nochain")
    /\ \E fault \in Faults :
          Return(writeNoChain(Disk, links, CACert(Prog[pc].a), SigningClientCA, fault),
                 fault, "error", After(pc, TRUE))
    /\ UNCHANGED <<links, cfg, now, run, regen, certGen, startFs, startNow, changed,
                   consec, encIO, rt, envLeft>>

CreateServerCA ==
    /\ At("serverca")
    /\ \E fault \in Faults :
          LET r == createServerSigningCertKey(Disk, links, now, run, fault)
          IN /\ Return(r.ret, fault, "error", After(pc, TRUE))
             /\ regen' = r.ret.flag /\ links' = r.links
    /\ UNCHANGED <<cfg, now, run, certGen, startFs, startNow, changed, consec, encIO,
                   rt, envLeft>>

IssueLeaf ==
    /\ At("leaf")
    /\ \E fault \in Faults :
          LET L == Leaves[Prog[pc].a]
              r == createClientCertKey(Disk, links, regen, L, AltNamesOf(L.alt, cfg),
                                       now, run, fault)
          IN /\ Return(r, fault, "error", After(pc, r.flag))
             /\ certGen' = IF L.kube # "" THEN r.flag ELSE certGen
    /\ UNCHANGED <<links, cfg, now, run, regen, startFs, startNow, changed, consec,
                   encIO, rt, envLeft>>

WriteKubeConfig ==
    /\ At("kubeconfig")
    /\ \E fault \in Faults :
          LET L == Leaves[Prog[pc].a]
          IN Return(KubeConfig(Disk, links, L.kube, APIEndpoint, CACert("server"),
                               L.crt, L.key, fault),
                    fault, "error", After(pc, TRUE))
    /\ UNCHANGED <<links, cfg, now, run, regen, certGen, startFs, startNow, changed,
                   consec, encIO, rt, envLeft>>

KeyOnly ==
    /\ At("keyonly")
    /\ \E fault \in Faults :
          Return(ensureKeyFile(Disk, links, Prog[pc].a, regen, run, fault),
                 fault, "error", After(pc, TRUE))
    /\ UNCHANGED <<links, cfg, now, run, regen, certGen, startFs, startNow, changed,
                   consec, encIO, rt, envLeft>>

ServiceAccount ==
    /\ At("serviceaccount")
    /\ \E fault \in Faults :
          Return(genServiceAccount(Disk, links, run, fault), fault, "error", After(pc, TRUE))
    /\ UNCHANGED <<links, cfg, now, run, regen, certGen, startFs, startNow, changed,
                   consec, encIO, rt, envLeft>>

Users ==
    /\ At("users")
    /\ \E fault \in Faults :
          Return(genUsers(Disk, cfg, run, fault), fault, "error", After(pc, TRUE))
    /\ UNCHANGED <<links, cfg, now, run, regen, certGen, startFs, startNow, changed,
                   consec, encIO, rt, envLeft>>

NetworkKey ==
    /\ At("psk")
    /\ \E fault \in Faults :
          Return(genEncryptedNetworkInfo(Disk, links, run, fault),
                 fault, "error", After(pc, TRUE))
    /\ UNCHANGED <<links, cfg, now, run, regen, certGen, startFs, startNow, changed,
                   consec, encIO, rt, envLeft>>

Encryption ==
    /\ At("enc")
    /\ \E fault \in Faults :
          LET r == genEncryptionConfigAndState(Disk, links, cfg, run, fault)
          IN Return(r.ret, fault, r.kind, After(pc, TRUE)) /\ encIO' = r.io
    /\ UNCHANGED <<links, cfg, now, run, regen, certGen, startFs, startNow, changed,
                   consec, rt, envLeft>>

Egress ==
    /\ At("egress")
    /\ \E fault \in Faults :
          Return(genEgressSelectorConfig(Disk, links, cfg, fault),
                 fault, "error", After(pc, TRUE))
    /\ UNCHANGED <<links, cfg, now, run, regen, certGen, startFs, startNow, changed,
                   consec, encIO, rt, envLeft>>

Cloud ==
    /\ At("cloud")
    /\ \E fault \in Faults :
          Return(genCloudConfig(Disk, links, cfg, fault), fault, "error", After(pc, TRUE))
    /\ UNCHANGED <<links, cfg, now, run, regen, certGen, startFs, startNow, changed,
                   consec, encIO, rt, envLeft>>

\* readTokens ends the run: GenServerDeps returns its result.
Tokens ==
    /\ At("tokens")
    /\ \E fault \in Faults :
          /\ fault \in {"none", "early"}
          /\ faultsLeft' = IF fault = "none" THEN faultsLeft ELSE faultsLeft - 1
          /\ IF fault = "none" /\ fs[PasswdFile].t \in {"none", "passwd"}
             THEN result' = "ok" /\ failedAt' = 0 /\ rt' = readTokens(Disk, rt)
             ELSE result' = "error" /\ failedAt' = pc /\ rt' = rt
    /\ pc' = 0
    /\ UNCHANGED <<fs, mode, written, links, cfg, now, run, regen, certGen, startFs,
                   startNow, changed, consec, encIO, envLeft>>

Run ==
    \/ StartRun \/ Cleanup \/ CreateCA \/ NoChain \/ CreateServerCA \/ IssueLeaf
    \/ WriteKubeConfig \/ KeyOnly \/ ServiceAccount \/ Users \/ NetworkKey
    \/ Encryption \/ Egress \/ Cloud \/ Tokens

\* ------------------------------------------------------------------ the administrator
\* Between runs CA files are removed or replaced, the SAN list of the
\* configuration is changed, and time passes.
SanUniverse == {"node.example", "::1", "0:0:0:0:0:0:0:1"}

EnvUnchanged ==
    UNCHANGED <<run, pc, regen, certGen, result, failedAt, written, startFs, startNow,
                consec, encIO, rt, faultsLeft>>

Unlinked(f) ==
    IF f \in {CACert("server"), TokenCA} THEN links \ {"crt"}
    ELSE IF f \in {CAKey("server"), TokenCAKey} THEN links \ {"key"}
    ELSE links

RemoveCAFile ==
    /\ pc = 0 /\ envLeft > 0
    /\ \E ca \in CAs : \E f \in {CACert(ca), CAKey(ca)} :
          /\ fs[f].t # "none"
          /\ fs' = [fs EXCEPT ![f] = NoFile] /\ mode' = [mode EXCEPT ![f] = ""]
          /\ links' = Unlinked(f)
    /\ envLeft' = envLeft - 1 /\ changed' = TRUE
    /\ UNCHANGED <<cfg, now>> /\ EnvUnchanged

\* A CA issued elsewhere: the file holds the intermediate, then its root.
ExternalCA(ca, n) ==
    LET key == [f |-> "external-" \o ca, r |-> n]
        root == [f |-> "external-root-" \o ca, r |-> n]
    IN [crt |-> CertFile(<<Cert("external-" \o ca, {}, {}, {}, {}, now + 10 * CertValidity,
                                 key, SubjectKeyId(root), root, TRUE),
                            NewSelfSignedCACert("external-root", root, now)>>),
        key |-> KeyFile(<<key>>)]

ReplaceCA ==
    /\ pc = 0 /\ envLeft > 0
    /\ \E ca \in CAs :
          /\ fs[CACert(ca)].t # "none" /\ fs[CAKey(ca)].t # "none"
          /\ fs' = [fs EXCEPT ![CACert(ca)] = ExternalCA(ca, envLeft).crt,
                              ![CAKey(ca)] = ExternalCA(ca, envLeft).key]
          /\ links' = IF ca = "server" THEN {} ELSE links
    /\ envLeft' = envLeft - 1 /\ changed' = TRUE
    /\ UNCHANGED <<mode, cfg, now>> /\ EnvUnchanged

SetSANs ==
    /\ pc = 0 /\ envLeft > 0
    /\ \E s \in SUBSET SanUniverse :
          s # cfg.SANs /\ cfg' = [cfg EXCEPT !.SANs = s]
    /\ envLeft' = envLeft - 1 /\ changed' = TRUE
    /\ UNCHANGED <<fs, mode, links, now>> /\ EnvUnchanged

Tick ==
    /\ pc = 0 /\ envLeft > 0 /\ now < MaxTime
    /\ \E t \in (now + 1) .. MaxTime : now' = t
    /\ envLeft' = envLeft - 1
    /\ UNCHANGED <<fs, mode, links, cfg, changed>> /\ EnvUnchanged

Admin == RemoveCAFile \/ ReplaceCA \/ SetSANs \/ Tick

Next == Run \/ Admin

Spec == Init /\ [][Next]_vars
SpecFaults == InitFaults /\ [][Run]_vars
SpecUsers == InitUsers /\ [][Run]_vars
SpecLegacy == InitLegacy /\ [][Run]_vars

\* What another process can see while a file is being written in place:
\* os.OpenFile with O_TRUNC (KubeConfig) and os.WriteFile empty the file before
\* the first byte of the new content is written.
TruncatingWrite ==
    IF At("kubeconfig") THEN {Leaves[Prog[pc].a].kube}
    ELSE IF At("egress") THEN {EgressSelectorConfig}
    ELSE IF At("cloud") THEN {CloudControllerConfig}
    ELSE {}

OpenTrunc ==
    /\ \E f \in TruncatingWrite :
          /\ f \notin written
          /\ LET w == WriteFile(Disk, links, f, [t |-> "empty"], "0600")
             IN fs' = w.fs /\ mode' = w.mode /\ written' = w.written
    /\ UNCHANGED <<links, cfg, now, run, pc, regen, certGen, result, failedAt, startFs,
                   startNow, changed, consec, encIO, rt, envLeft, faultsLeft>>

\* Bootstraps of a data directory in which one of the files written in place
\* already exists, readable by group and others.
LooseFiles == {Leaves.admin.kube, EgressSelectorConfig, CloudControllerConfig}

OldContent(f) ==
    IF f = EgressSelectorConfig THEN Marshal(egressConfig(BaseConfig))
    ELSE IF f = CloudControllerConfig THEN Marshal(cloudConfig(BaseConfig))
    ELSE [t |-> "kubeconfig", server |-> APIEndpoint, ca |-> CACert("server"),
          cert |-> Leaves.admin.crt, key |-> Leaves.admin.key]

InitModes ==
    \E f \in LooseFiles, etcd \in BOOLEAN :
        LET d == [FreshFs EXCEPT ![f] = OldContent(f)]
        IN InitAt([BaseConfig EXCEPT !.DisableETCD = etcd], d,
                  [ModeOf(d) EXCEPT ![f] = "0644"], 0, 0)

SpecModes == InitModes /\ [][Run]_vars

\* Between the first run and the second a leaf certificate is replaced by one
\* issued under the same CA for the same key, with another common name,
\* organization list or SANs.  sets.NewString: the set of a list of strings.
NewString(seq) == {seq[i] : i \in DOMAIN seq}

ReissuedLeaves == {"admin", "controller", "servingapi"}
OrgLists(org) ==
    IF org = {} THEN {<<>>, <<"extra:group">>}
    ELSE LET m == CHOOSE o \in org : TRUE
         IN {<<m>>, <<m, m>>, <<m, "extra:group">>, <<"extra:group", m>>, <<>>}
AltVariants(alt) ==
    {alt, [alt EXCEPT !.dns = @ \cup {"extra.example"}],
     [alt EXCEPT !.ips = @ \cup {"127.0.0.1"}]}
        \cup {[alt EXCEPT !.dns = @ \ {n}] : n \in alt.dns \cap {"kubernetes"}}

ReissueLeaf ==
    /\ pc = 0 /\ run = 1 /\ result = "ok" /\ ~changed
    /\ \E l \in ReissuedLeaves :
          LET L == Leaves[l]
              caCerts == CertsFromFile(Disk, CACert(L.ca))
              caKey == fs[CAKey(L.ca)].ids[1]
          IN \E cn \in {L.cn, "someone-else"}, org \in OrgLists(L.org),
                alt \in AltVariants(AltNamesOf(L.alt, cfg)) :
                fs' = [fs EXCEPT ![L.crt] =
                          CertFile(<<NewSignedCert(cn, NewString(org), alt, L.use,
                                                   fs[L.key].ids[1], caCerts[1], caKey, now)>>
                                   \o caCerts)]
    /\ changed' = TRUE
    /\ UNCHANGED <<mode, links, cfg, now, envLeft>> /\ EnvUnchanged

InitFields == InitWith(BaseConfig, FreshFs, 0, 0)

SpecFields == InitFields /\ [][Run \/ ReissueLeaf]_vars

\* Between the first run and the second a certificate file is damaged: it is
\* truncated, or holds no certificate that parses.
UnreadableContents == {[t |-> "empty"], CertFile(<<>>)}

DamagedFiles ==
    {Leaves[l].crt : l \in {"admin", "servingapi", "authproxy", "etcdserver"}}
        \cup {CACert(ca) : ca \in {"client", "request-header", "etcd-server"}}

DamageCert ==
    /\ pc = 0 /\ run = 1 /\ result = "ok" /\ ~changed
    /\ \E f \in DamagedFiles, c \in UnreadableContents : fs' = [fs EXCEPT ![f] = c]
    /\ changed' = TRUE
    /\ UNCHANGED <<mode, links, cfg, now, envLeft>> /\ EnvUnchanged

SpecUnreadable == InitFields /\ [][Run \/ DamageCert]_vars

\* Between the first run and the second the certificate file, the key file or
\* both files of a leaf are removed.
RemoveLeafFile ==
    /\ pc = 0 /\ run = 1 /\ result = "ok" /\ ~changed
    /\ \E l \in {"admin", "servingapi", "etcdserver"} :
          \E gone \in {{Leaves[l].crt}, {Leaves[l].key}, {Leaves[l].crt, Leaves[l].key}} :
              /\ fs' = [f \in Files |-> IF f \in gone THEN NoFile ELSE fs[f]]
              /\ mode' = [f \in Files |-> IF f \in gone THEN "" ELSE mode[f]]
    /\ changed' = TRUE
    /\ UNCHANGED <<links, cfg, now, envLeft>> /\ EnvUnchanged

SpecLeafFiles == InitFields /\ [][Run \/ RemoveLeafFile]_vars

\* Between the first run and the second the service-account signing key is
\* rotated: a new key is put in front of the keys of the file.
RotateServiceKey ==
    /\ pc = 0 /\ run = 1 /\ ~changed /\ fs[ServiceKey].t = "key"
    /\ fs' = [fs EXCEPT ![ServiceKey] =
                  KeyFile(<<[f |-> "rotated", r |-> run]>> \o fs[ServiceKey].ids)]
    /\ changed' = TRUE
    /\ UNCHANGED <<mode, links, cfg, now, envLeft>> /\ EnvUnchanged

InitRotation ==
    \E etcd \in BOOLEAN : InitWith([BaseConfig EXCEPT !.DisableETCD = etcd], FreshFs, 0, MaxFails)

SpecRotation == InitRotation /\ [][Run \/ RotateServiceKey]_vars

\* genEncryptionConfigAndState when os.WriteFile of the hash record fails after
\* its truncating open: the configuration is in place and the record is left
\* created and empty.
hashWriteFails(d, l, c, r) ==
    LET keyName == IF c.EncryptProvider = AESCBCProvider THEN "aescbckey"
                   ELSE "secretboxkey"
        d1 == IF encryptionConfigExists(d) THEN d
              ELSE AtomicWrite(d, EncryptionConfig,
                               Marshal(encConfig(c.EncryptProvider, keyName,
                                                 NewPrivateKey(keyName, r))), "0600")
    IN Ret(WriteFile(d1, l, EncryptionHash, [t |-> "empty"], "0600"), FALSE, TRUE, TRUE)

\* The encryption step of a run in which the write of the hash record fails.
EncryptionTorn ==
    /\ At("enc") /\ faultsLeft > 0
    /\ encryptionEnabled(cfg) /\ supportedProvider(cfg)
    /\ ~encryptionConfigExists(Disk) \/ fs[EncryptionHash].t = "none"
    /\ Return(hashWriteFails(Disk, links, cfg, run), "late", "error", After(pc, TRUE))
    /\ encIO' = {EncryptionConfig, EncryptionHash}
    /\ UNCHANGED <<links, cfg, now, run, regen, certGen, startFs, startNow, changed,
                   consec, rt, envLeft>>

\* Bootstraps with secrets encryption enabled, with failing calls.
InitEncrypted ==
    \E p \in {AESCBCProvider, SecretBoxProvider} :
        InitWith([BaseConfig EXCEPT !.EncryptSecrets = TRUE, !.EncryptProvider = p],
                 FreshFs, 0, MaxFails)

SpecEncrypted == InitEncrypted /\ [][Run \/ EncryptionTorn]_vars

InitReaders ==
    \E f \in {FreshFs, LegacyFs} : InitWith(BaseConfig, f, 0, 0)

SpecReaders == InitReaders /\ [][Run \/ OpenTrunc]_vars

\* ------------------------------------------------------------------ properties
\* What the properties say of a certificate, independently of the code above.
InWindow(c, t) == c.notAfter - t <= CertificateRenewDays
LeafAt(f, l) == f[Leaves[l].crt].chain[1]
HasCert(f, file) == f[file].t = "certs"

\* A successful run has just ended and nothing was changed since.
RunOk == pc = 0 /\ result = "ok" /\ ~changed

\* A successful run has just ended that followed a successful run with no
\* configuration or CA change in between.
SecondRunDone == RunOk /\ consec

\* No leaf was inside the renewal window when the run started.
NoLeafDue ==
    \A l \in LeafNames :
        HasCert(startFs, Leaves[l].crt) => ~InWindow(LeafAt(startFs, l), startNow)

\* C1 as stated: a second run immediately after a successful run, with no
\* configuration or CA change in between, rewrites zero artifact files.
C1_ZeroRewrites == SecondRunDone /\ NoLeafDue => written = {} /\ fs = startFs

\* The derived files every run writes again.
Rewritten ==
    {SigningClientCA, SigningServerCA, ServiceCurrentKey, EgressSelectorConfig,
     CloudControllerConfig}

\* C1 amended: such a second run writes only the derived files (the two
\* leaf-only CA copies, the current service-account key, the egress and cloud
\* configurations), and every file keeps its content, except that the
\* leaf-only copy of the server CA is created when the server CA is a link to
\* the legacy token CA and the copy is still missing.
C1_SameContent ==
    SecondRunDone /\ NoLeafDue =>
        /\ written \subseteq Rewritten
        /\ \A f \in Files \ {SigningServerCA} : fs[f] = startFs[f]
        /\ \/ fs[SigningServerCA] = startFs[SigningServerCA]
           \/ startFs[SigningServerCA] = NoFile /\ links # {}

C1_Witness ==
    SecondRunDone /\ NoLeafDue /\ Rewritten \subseteq written

\* The first certificate of a CA file: the certificate leaves are signed under.
CAAt(f, ca) == f[CACert(ca)].chain[1]

\* C2: after every successful run, whatever removals or replacements of CA
\* files came between the runs, the authority key identifier of every leaf
\* equals the subject key identifier of the first certificate in its CA file.
C2_AuthorityLinkage ==
    RunOk =>
        \A l \in LeafNames :
            HasCert(fs, Leaves[l].crt) /\ HasCert(fs, CACert(Leaves[l].ca)) =>
                LeafAt(fs, l).aki = CAAt(fs, Leaves[l].ca).ski

\* A run has succeeded that found a leaf signed under another CA than the one
\* in its CA file (the file was replaced), and re-issued it under that CA.
C2_Witness ==
    /\ RunOk
    /\ \E l \in LeafNames :
          /\ HasCert(startFs, Leaves[l].crt) /\ HasCert(startFs, CACert(Leaves[l].ca))
          /\ LeafAt(startFs, l).aki # CAAt(startFs, Leaves[l].ca).ski
          /\ CAAt(fs, Leaves[l].ca) = CAAt(startFs, Leaves[l].ca)
          /\ LeafAt(fs, l).aki = CAAt(fs, Leaves[l].ca).ski

\* The leaves a run under the current configuration issues.
Issued(l) == l # "etcdserver" \/ ~cfg.DisableETCD

Contained(alt, c) == alt.dns \subseteq c.dns /\ alt.ips \subseteq c.ips

\* The CA of a leaf is present when the run starts and the run leaves it alone.
CAUntouched(ca) ==
    /\ HasCert(startFs, CACert(ca)) /\ startFs[CAKey(ca)].t = "key"
    /\ fs[CACert(ca)] = startFs[CACert(ca)] /\ fs[CAKey(ca)] = startFs[CAKey(ca)]

\* When the run starts the leaf has its key, the subject the code asks for,
\* and the signature of the CA that is still its CA.
SameSubjectAndCA(l) ==
    LET L == Leaves[l] IN
    /\ HasCert(startFs, L.crt) /\ startFs[L.key].t = "key"
    /\ LeafAt(startFs, l).cn = L.cn /\ LeafAt(startFs, l).org = L.org
    /\ CAUntouched(L.ca)
    /\ LeafAt(startFs, l).aki = CAAt(startFs, L.ca).ski

LeafUntouched(l) ==
    /\ {Leaves[l].crt, Leaves[l].key} \cap written = {}
    /\ fs[Leaves[l].crt] = startFs[Leaves[l].crt]
    /\ fs[Leaves[l].key] = startFs[Leaves[l].key]

LeafRegenerated(l) ==
    /\ Leaves[l].crt \in written
    /\ LeafAt(fs, l).notAfter = startNow + CertValidity

ExpiryRenewalOf(l) ==
    SameSubjectAndCA(l) /\ Contained(AltNamesOf(Leaves[l].alt, cfg), LeafAt(startFs, l)) =>
        IF InWindow(LeafAt(startFs, l), startNow) THEN LeafRegenerated(l)
        ELSE LeafUntouched(l)

\* C4: a leaf whose subject, SANs and issuing CA are unchanged is regenerated
\* by the next run when its not-after is inside the renewal window, and its
\* certificate and key files are left untouched when it is outside.
C4_ExpiryRenewal == RunOk => \A l \in LeafNames : Issued(l) => ExpiryRenewalOf(l)

SanContainmentOf(l) ==
    SameSubjectAndCA(l) /\ ~InWindow(LeafAt(startFs, l), startNow) =>
        IF Contained(AltNamesOf(Leaves[l].alt, cfg), LeafAt(startFs, l))
        THEN LeafUntouched(l)
        ELSE LeafRegenerated(l)

\* C5: with every other input unchanged, a leaf is regenerated exactly when
\* some requested DNS name or IP address is missing from it (IP addresses
\* compared by value); a request its SANs already cover regenerates nothing.
C5_SanContainment == RunOk => \A l \in LeafNames : Issued(l) => SanContainmentOf(l)

\* The two properties hold of every leaf but the etcd server leaf.
ExpiryRenewalElsewhere ==
    RunOk => \A l \in LeafNames \ {"etcdserver"} : ExpiryRenewalOf(l)
SanContainmentElsewhere ==
    RunOk => \A l \in LeafNames \ {"etcdserver"} : SanContainmentOf(l)

\* C3 as stated: when a run aborted at some step is followed by a run that
\* succeeds under the same configuration, the kubeconfig of every role whose
\* client certificate exists is there.
C3_KubeconfigRecovered ==
    RunOk =>
        \A l \in KubeRoles :
            fs[Leaves[l].crt].t # "none" => fs[Leaves[l].kube].t = "kubeconfig"

\* The credential table of a data directory.
HasTable(f) == f[PasswdFile].t = "passwd"
Usable(f, name) ==
    HasTable(f) /\ f[PasswdFile].names[name].present
                /\ f[PasswdFile].names[name].pass # EmptyTok

\* C6: from a credential table with a node secret and no usable server entry
\* one run produces both the node and the server entry, and a run that follows
\* a successful run under the same configuration leaves the table unchanged.
C6_MigrationOnce ==
    /\ RunOk /\ Usable(startFs, "node") /\ ~Usable(startFs, "server") =>
            Usable(fs, "node") /\ Usable(fs, "server")
    /\ SecondRunDone =>
            fs[PasswdFile] = startFs[PasswdFile] /\ PasswdFile \notin written

\* The second run has ended on a table whose server secret is the promoted
\* legacy node secret.
C6_Witness ==
    /\ SecondRunDone /\ Usable(fs, "server")
    /\ fs[PasswdFile].names["server"].pass = LegacyNode
    /\ fs[PasswdFile].names["node"].pass # LegacyNode

\* The position of the encryption step in the program.
EncStep == CHOOSE i \in 1 .. NSteps : Prog[i].op = "enc"

\* The hash record the properties expect for the bytes of a file.
StartHashOf(bytes) == [t |-> "text", s |-> <<"start-", [sha256 |-> bytes]>>]

\* C7: enabling encryption on a fresh data directory with a supported
\* provider produces a configuration whose provider list is the chosen
\* provider with one key, then identity, and a hash record that is "start-"
\* followed by the SHA-256 of the bytes of the configuration file.
C7_EncryptionBootstrap ==
    RunOk /\ cfg.EncryptSecrets /\ startFs[EncryptionConfig] = NoFile
          /\ startFs[EncryptionHash] = NoFile =>
        /\ fs[EncryptionConfig].t = "json"
        /\ LET p == fs[EncryptionConfig].doc.resources[1].providers IN
              /\ Len(p) = 2
              /\ p[1].provider = cfg.EncryptProvider /\ Len(p[1].keys) = 1
              /\ p[2].provider = "identity"
        /\ fs[EncryptionHash] = StartHashOf(fs[EncryptionConfig])

C7_Witness ==
    /\ RunOk /\ cfg.EncryptSecrets /\ cfg.EncryptProvider = SecretBoxProvider
    /\ startFs[EncryptionConfig] = NoFile /\ startFs[EncryptionHash] = NoFile
    /\ {EncryptionConfig, EncryptionHash} \subseteq written

\* C8: with encryption disabled the encryption step touches no file and
\* returns without error whatever the provider kind is, and no encryption
\* configuration and no hash record come to exist.
C8_DisabledNoOp ==
    ~cfg.EncryptSecrets =>
        /\ failedAt # EncStep /\ encIO = {}
        /\ {EncryptionConfig, EncryptionHash} \cap written = {}
        /\ fs[EncryptionConfig] = NoFile /\ fs[EncryptionHash] = NoFile

C8_Witness ==
    RunOk /\ ~cfg.EncryptSecrets /\ cfg.EncryptProvider = "bogus" /\ startFs = FreshFs

\* C9: once an encryption configuration exists no run changes it; a run that
\* finds no hash record writes the one of the file's bytes, and a run that
\* finds one writes neither file.
C9_NoRotation ==
    startFs[EncryptionConfig].t = "json" =>
        /\ fs[EncryptionConfig] = startFs[EncryptionConfig]
        /\ EncryptionConfig \notin written
        /\ RunOk /\ cfg.EncryptSecrets =>
              IF startFs[EncryptionHash] = NoFile
              THEN fs[EncryptionHash] = StartHashOf(startFs[EncryptionConfig])
              ELSE /\ fs[EncryptionHash] = startFs[EncryptionHash]
                   /\ EncryptionHash \notin written

\* A run has backfilled the hash record of a configuration it found.
C9_Witness ==
    /\ RunOk /\ startFs[EncryptionConfig].t = "json" /\ startFs[EncryptionHash] = NoFile
    /\ EncryptionHash \in written

Unsupported == cfg.EncryptSecrets /\ cfg.EncryptProvider \notin {"aescbc", "secretbox"}

\* C10 as stated: a run with encryption enabled and an unsupported provider
\* fails and has created or modified no file of the data directory.
C10_NothingWritten ==
    Unsupported /\ pc = 0 /\ result = "unsupported" => written = {} /\ fs = startFs

\* C10 amended: such a run fails with the configuration error at the
\* encryption step, and writes no encryption configuration, no hash record
\* and none of the configuration files of the later steps; the files of the
\* earlier steps are written.
C10_RejectedAtEncryptionStep ==
    Unsupported =>
        /\ result # "ok"
        /\ pc = 0 /\ result = "unsupported" => failedAt = EncStep
        /\ written \cap {EncryptionConfig, EncryptionHash, EgressSelectorConfig,
                          CloudControllerConfig} = {}
        /\ fs[EncryptionConfig] = NoFile /\ fs[EncryptionHash] = NoFile

C10_Witness ==
    /\ Unsupported /\ pc = 0 /\ result = "unsupported"
    /\ {PasswdFile, IPSECKey, ServiceKey, Leaves.admin.crt, Leaves.admin.kube} \subseteq written

\* The position of the server CA step, and whether the run is past it.
ServerCAStep == CHOOSE i \in 1 .. NSteps : Prog[i].op = "serverca"
PastStep(i) == pc > i \/ (pc = 0 /\ result = "ok") \/ (pc = 0 /\ failedAt > i)

\* The current run found the token CA and no server CA file, and linked them.
LinkedThisRun ==
    /\ HasCert(startFs, TokenCA) /\ startFs[TokenCAKey].t = "key"
    /\ startFs[CACert("server")] = NoFile /\ startFs[CAKey("server")] = NoFile
    /\ links = {"crt", "key"} /\ PastStep(ServerCAStep)

\* A server leaf that was valid under the token CA when the run started.
ValidLegacyLeaf(l) ==
    /\ Leaves[l].ca = "server"
    /\ HasCert(startFs, Leaves[l].crt) /\ startFs[Leaves[l].key].t = "key"
    /\ LeafAt(startFs, l).cn = Leaves[l].cn /\ LeafAt(startFs, l).org = Leaves[l].org
    /\ Contained(AltNamesOf(Leaves[l].alt, cfg), LeafAt(startFs, l))
    /\ ~InWindow(LeafAt(startFs, l), startNow)
    /\ LeafAt(startFs, l).aki = startFs[TokenCA].chain[1].ski

\* C11 as stated: the link path of createServerSigningCertKey returns false,
\* and the server leaves that are still valid are not regenerated in that run.
C11_LinkNotCreated ==
    LinkedThisRun =>
        /\ pc = ServerCAStep + 1 => ~regen
        /\ RunOk => \A l \in LeafNames : ValidLegacyLeaf(l) => LeafUntouched(l)

\* C11 amended: the link path leaves the server CA paths naming the token CA
\* files and returns true, and the server leaves that are still valid are
\* regenerated in that run, under the same CA certificate.
C11_LinkCreated ==
    LinkedThisRun =>
        /\ fs[CACert("server")] = startFs[TokenCA] /\ fs[TokenCA] = startFs[TokenCA]
        /\ fs[CAKey("server")] = startFs[TokenCAKey] /\ fs[TokenCAKey] = startFs[TokenCAKey]
        /\ pc = ServerCAStep + 1 => regen
        /\ RunOk =>
              \A l \in LeafNames :
                  ValidLegacyLeaf(l) =>
                      /\ LeafRegenerated(l)
                      /\ fs[Leaves[l].key] # startFs[Leaves[l].key]
                      /\ LeafAt(fs, l).aki = LeafAt(startFs, l).aki

C11_Witness ==
    LinkedThisRun /\ RunOk /\ ValidLegacyLeaf("servingapi")

\* The step that obtains a CA, and a run that found both files of the CA.
CAStep(ca) == CHOOSE i \in 1 .. NSteps : Prog[i].op \in {"ca", "serverca"} /\ Prog[i].a = ca
CAPresent(ca) == startFs[CACert(ca)] # NoFile /\ startFs[CAKey(ca)] # NoFile
InRun == pc # 0 \/ ~changed

\* C12: a run that finds both the certificate file and the key file of a CA
\* writes neither of them and leaves their contents as they were, and the
\* step that obtains the CA returns false.
C12_ExistingCAKept ==
    \A ca \in CAs :
        (run > 0 /\ InRun /\ CAPresent(ca)) =>
            /\ fs[CACert(ca)] = startFs[CACert(ca)] /\ fs[CAKey(ca)] = startFs[CAKey(ca)]
            /\ CACert(ca) \notin written /\ CAKey(ca) \notin written
            /\ pc = CAStep(ca) + 1 => ~regen

C12_Witness ==
    /\ run > 1 /\ pc = 0 /\ result = "ok" /\ ~changed
    /\ \A ca \in CAs : CAPresent(ca)
    /\ written # {}

\* The configuration and credential files other processes read.
ConfigFiles ==
    {Leaves[l].kube : l \in KubeRoles}
        \cup {PasswdFile, IPSECKey, EncryptionConfig, EncryptionHash,
              EgressSelectorConfig, CloudControllerConfig}

\* C13: at every moment each configuration or credential file is absent or
\* holds a complete content, the previous one or the new one; it is never
\* seen empty or partially written.
C13_NeverPartial ==
    \A f \in ConfigFiles :
        \/ fs[f] = NoFile
        \/ fs[f].t # "empty" /\ (fs[f] = startFs[f] \/ f \in written)

\* The part of C13 that holds: the files written through util.AtomicWrite.
C13_AtomicFilesComplete ==
    \A f \in {PasswdFile, EncryptionConfig} : fs[f].t # "empty"

\* The secret of an entry of the credential table, and the secrets known when
\* the run started.
SecretOf(f, name) == f[PasswdFile].names[name].pass
StartSecrets ==
    {cfg.Token, cfg.AgentToken, EmptyTok}
        \cup (IF HasTable(startFs) THEN {SecretOf(startFs, "node"), SecretOf(startFs, "server")}
              ELSE {})
FreshSecret(tok) == tok.user = "" /\ tok \notin StartSecrets

\* C14 as stated: after genUsers the server secret is the supplied token, else
\* the server secret stored before, else a newly generated one; with no
\* supplied token it is the same after every later run.
C14_ServerSecretSource ==
    RunOk =>
        /\ Usable(fs, "server")
        /\ IF cfg.Token # EmptyTok THEN SecretOf(fs, "server") = cfg.Token
           ELSE IF Usable(startFs, "server")
                THEN SecretOf(fs, "server") = SecretOf(startFs, "server")
                ELSE FreshSecret(SecretOf(fs, "server"))

\* C14 amended: between the stored server secret and a newly generated one
\* comes the stored node secret, which migratePassword promotes.
C14_ServerSecretWithMigration ==
    RunOk =>
        /\ Usable(fs, "server")
        /\ IF cfg.Token # EmptyTok THEN SecretOf(fs, "server") = cfg.Token
           ELSE IF Usable(startFs, "server")
                THEN SecretOf(fs, "server") = SecretOf(startFs, "server")
                ELSE IF Usable(startFs, "node")
                     THEN SecretOf(fs, "server") = SecretOf(startFs, "node")
                     ELSE FreshSecret(SecretOf(fs, "server"))
        /\ (cfg.Token = EmptyTok /\ run > 1) =>
                SecretOf(fs, "server") = SecretOf(startFs, "server")

\* A later run without a supplied token has ended on the stored server secret.
C14_Witness ==
    /\ RunOk /\ run > 1 /\ cfg.Token = EmptyTok
    /\ Usable(startFs, "server") /\ SecretOf(fs, "server") = SecretOf(startFs, "server")
    /\ SecretOf(fs, "server") = Tok("", "server-1")

\* The first run, on a fresh data directory, with encryption disabled and
\* neither a token nor an agent token supplied, has succeeded.
FreshDefaultRun ==
    /\ RunOk /\ run = 1 /\ startFs = FreshFs
    /\ ~cfg.EncryptSecrets /\ cfg.Token = EmptyTok /\ cfg.AgentToken = EmptyTok

\* C15 as stated: after that run the credential table holds a node and a
\* server entry, and the node secret is not a copy of the server secret.
C15_IndependentSecrets ==
    FreshDefaultRun =>
        /\ Usable(fs, "node") /\ Usable(fs, "server")
        /\ SecretOf(fs, "node") # SecretOf(fs, "server")

\* C15 amended: after that run the table holds a node and a server entry; the
\* server secret is newly generated and the node secret is a copy of it.
C15_NodeCopiesServer ==
    FreshDefaultRun =>
        /\ Usable(fs, "node") /\ Usable(fs, "server")
        /\ FreshSecret(SecretOf(fs, "server"))
        /\ SecretOf(fs, "node") = SecretOf(fs, "server")
        /\ fs[PasswdFile].names["node"].role = "k3s:agent"
        /\ fs[PasswdFile].names["server"].role = "k3s:server"

C15_Witness ==
    FreshDefaultRun /\ SecretOf(fs, "node") = Tok("", "server-1")

\* The position of the kubeconfig step of a client role.
KubeStep(l) == CHOOSE i \in 1 .. NSteps : Prog[i] = Step("kubeconfig", l)

\* C16: in a run the kubeconfig of a client role is written only if the
\* role's certificate was issued in that run, it is written once the run is
\* past the role's kubeconfig step if the certificate was issued, and a
\* kubeconfig that is not written keeps the content it had.
C16_KubeconfigIffIssued ==
    (run > 0 /\ InRun) =>
        \A l \in KubeRoles :
            /\ Leaves[l].kube \in written => Leaves[l].crt \in written
            /\ (PastStep(KubeStep(l)) /\ Leaves[l].crt \in written) =>
                    Leaves[l].kube \in written
            /\ Leaves[l].kube \notin written =>
                    /\ fs[Leaves[l].kube] = startFs[Leaves[l].kube]
                    /\ mode[Leaves[l].kube] = "0600" \/ fs[Leaves[l].kube] = NoFile

\* A run has ended that reused every client certificate and touched no
\* kubeconfig, after a run that issued them and wrote the kubeconfigs.
C16_Witness ==
    /\ RunOk /\ run > 1
    /\ \A l \in KubeRoles :
           /\ Leaves[l].crt \notin written /\ Leaves[l].kube \notin written
           /\ fs[Leaves[l].kube].t = "kubeconfig"

\* The steps of GenServerDeps in the order C17 names them, the step a call of
\* the program belongs to, and the files each step produces.
Stages ==
    <<"cleanup", "certs", "serviceaccount", "users", "psk", "enc", "egress", "cloud",
      "tokens">>
StageOf(i) ==
    LET op == Prog[i].op
        k == IF op \in {"ca", "serverca", "nochain", "leaf", "kubeconfig", "keyonly"}
             THEN "certs" ELSE op
    IN CHOOSE n \in 1 .. Len(Stages) : Stages[n] = k
ArtifactsOf(n) ==
    CASE Stages[n] = "certs" ->
           {CACert(ca) : ca \in CAs} \cup {CAKey(ca) : ca \in CAs}
               \cup {Leaves[l].crt : l \in LeafNames} \cup {Leaves[l].key : l \in LeafNames}
               \cup {Leaves[l].kube : l \in KubeRoles} \cup KeyOnlyFiles
               \cup {SigningClientCA, SigningServerCA}
      [] Stages[n] = "serviceaccount" -> {ServiceKey, ServiceCurrentKey}
      [] Stages[n] = "users" -> {PasswdFile}
      [] Stages[n] = "psk" -> {IPSECKey}
      [] Stages[n] = "enc" -> {EncryptionConfig, EncryptionHash}
      [] Stages[n] = "egress" -> {EgressSelectorConfig}
      [] Stages[n] = "cloud" -> {CloudControllerConfig}
      [] OTHER -> {}
NothingAfter(i) ==
    \A n \in 1 .. Len(Stages) : n > StageOf(i) => written \cap ArtifactsOf(n) = {}

\* C17: the calls of a run are made in the order cleanup, certificates,
\* service-account key, users, network key, encryption, egress, cloud, tokens:
\* while a step runs nothing of a later step has been written; a run that did
\* not succeed stopped at the step that failed, no call is made after it,
\* and it has written nothing of a later step.
C17_OrderAndAbort ==
    /\ pc > 0 => result = "running" /\ failedAt = 0 /\ NothingAfter(pc)
    /\ (pc = 0 /\ run > 0 /\ result # "ok") =>
            /\ result \in {"error", "unsupported"}
            /\ failedAt \in 1 .. NSteps
            /\ NothingAfter(failedAt)
    /\ (pc = 0 /\ result = "ok") => failedAt = 0

\* The calls are made one after the other, from the first on.
C17_StepOrder ==
    [][pc' # pc =>
         \/ pc = 0 /\ pc' = 1
         \/ pc > 0 /\ pc' = 0
         \/ pc > 0 /\ pc' > pc /\ StageOf(pc') \in {StageOf(pc), StageOf(pc) + 1}]_vars

\* A run on a data directory without a credential table failed at the users
\* step: the certificates and service-account keys are written, nothing later.
C17_Witness ==
    /\ pc = 0 /\ result = "error" /\ Stages[StageOf(failedAt)] = "users"
    /\ startFs[PasswdFile] = NoFile /\ fs[PasswdFile] = NoFile
    /\ ServiceKey \in written /\ CACert("client") \in written

\* The files a run writes through KubeConfig or a direct file write.
DirectFiles ==
    {Leaves[l].kube : l \in KubeRoles}
        \cup {IPSECKey, EncryptionConfig, EncryptionHash, EgressSelectorConfig,
              CloudControllerConfig}

\* C18: after a successful run every file the run wrote through KubeConfig or
\* a direct file write has owner-only permission bits, also when the file
\* existed before the run with broader permissions.
C18_OwnerOnly ==
    RunOk => \A f \in DirectFiles \cap written : mode[f] = "0600"

\* The part of C18 that holds: the files the run created are owner-only.
C18_CreatedOwnerOnly ==
    RunOk => \A f \in DirectFiles \cap written : startFs[f] = NoFile => mode[f] = "0600"

\* The leaf-only file exists and holds exactly the first certificate of the
\* CA file.
LeafOnly(f, caFile, dest) ==
    /\ HasCert(f, caFile) /\ HasCert(f, dest)
    /\ f[dest].chain = <<f[caFile].chain[1]>>

\* C19: after every successful run, also the one that obtained the server CA
\* by linking the token CA files, client-ca.nochain.crt and
\* server-ca.nochain.crt exist and hold the first certificate of their CA file.
C19_NoChainFiles ==
    RunOk =>
        /\ LeafOnly(fs, CACert("client"), SigningClientCA)
        /\ LeafOnly(fs, CACert("server"), SigningServerCA)

\* The part of C19 that holds: the client file always, the server file after
\* every successful run that did not link the token CA.
C19_NoChainUnlessLinked ==
    RunOk =>
        /\ LeafOnly(fs, CACert("client"), SigningClientCA)
        /\ ~LinkedThisRun => LeafOnly(fs, CACert("server"), SigningServerCA)

\* The step that issues a leaf, and whether the run has created a CA (its
\* certificate was written, or linked into place).
LeafStep(l) == CHOOSE i \in 1 .. NSteps : Prog[i] = Step("leaf", l)
CreatedThisRun(ca) ==
    CACert(ca) \in written \/ fs[CACert(ca)] # startFs[CACert(ca)]

\* C20: for every leaf, the regeneration flag passed to createClientCertKey is
\* the wasCreated result of the CA that signs the leaf; the etcd-server leaf
\* is force-regenerated exactly when the etcd-server CA was created in the run.
C20_RegenFromSigningCA ==
    \A l \in LeafNames :
        pc = LeafStep(l) => (regen <=> CreatedThisRun(Leaves[l].ca))

\* What the calls pass: the flag of the signing CA for every leaf but the
\* etcd-server leaf, which gets the flag of the etcd-peer CA.
C20_RegenAsPassed ==
    \A l \in LeafNames :
        pc = LeafStep(l) =>
            (regen <=> CreatedThisRun(IF l = "etcdserver" THEN "etcd-peer" ELSE Leaves[l].ca))

\* The run has just returned from createSigningCertKey for a CA of which it
\* found the certificate file or the key file missing (the server CA is
\* linked, not created, when the token CA is there and both files are missing).
LinkCase(ca) ==
    /\ ca = "server" /\ startFs[TokenCA] # NoFile /\ startFs[TokenCAKey] # NoFile
    /\ startFs[CACert(ca)] = NoFile /\ startFs[CAKey(ca)] = NoFile
CreatedCA(ca) ==
    /\ pc = CAStep(ca) + 1 /\ ~LinkCase(ca)
    /\ startFs[CACert(ca)] = NoFile \/ startFs[CAKey(ca)] = NoFile
SelfSignedFor(f, ca) ==
    /\ HasCert(f, CACert(ca)) /\ f[CAKey(ca)].t = "key"
    /\ CAAt(f, ca).pub = f[CAKey(ca)].ids[1] /\ CAAt(f, ca).signer = f[CAKey(ca)].ids[1]
    /\ CAAt(f, ca).isCA

\* C21 as stated: whenever createSigningCertKey finds the certificate file or
\* the key file missing it generates a new private key, writes a self-signed
\* certificate for it and returns true, also when only the certificate is
\* missing.
C21_NewKeyAlways ==
    \A ca \in CAs :
        CreatedCA(ca) =>
            /\ regen /\ CACert(ca) \in written /\ SelfSignedFor(fs, ca)
            /\ CAKey(ca) \in written /\ fs[CAKey(ca)] # startFs[CAKey(ca)]

\* C21 amended: it writes a self-signed certificate for the key of the key
\* file and returns true; the key is generated and written only when the key
\* file is missing, and an existing key file is kept and signs the new
\* certificate.
C21_KeyReusedWhenPresent ==
    \A ca \in CAs :
        CreatedCA(ca) =>
            /\ regen /\ CACert(ca) \in written /\ SelfSignedFor(fs, ca)
            /\ fs[CACert(ca)] # startFs[CACert(ca)]
            /\ IF startFs[CAKey(ca)] = NoFile
               THEN CAKey(ca) \in written
               ELSE CAKey(ca) \notin written /\ fs[CAKey(ca)] = startFs[CAKey(ca)]

\* A CA certificate has been issued for a key file that was already there.
C21_Witness ==
    \E ca \in CAs :
        /\ CreatedCA(ca) /\ startFs[CAKey(ca)].t = "key" /\ startFs[CACert(ca)] = NoFile
        /\ SelfSignedFor(fs, ca)

\* The step of a key-only leaf, the CA its certificates are issued under, and
\* the certificate files older versions kept for these leaves.
KeyStep(k) == CHOOSE i \in 1 .. NSteps : Prog[i] = Step("keyonly", k)
KeyCA(k) == IF k = ServingKubeletKey THEN "server" ELSE "client"
KeyOnlyCerts == {ClientKubeProxyCert, ClientK3sControllerCert}

\* C22: once a run is past the step of a key-only leaf the key file exists; it
\* was written in the run exactly when it was missing or the issuing CA was
\* created in the run, a key written over an existing one is a new key, a key
\* not written is unchanged, and no certificate file of these leaves is
\* written.
C22_KeyOnlyLeaves ==
    (run > 0 /\ InRun) =>
        /\ \A k \in KeyOnlyFiles :
              PastStep(KeyStep(k)) =>
                  /\ fs[k].t = "key"
                  /\ k \in written <=> (startFs[k] = NoFile \/ CreatedThisRun(KeyCA(k)))
                  /\ k \in written => fs[k] # startFs[k]
                  /\ k \notin written => fs[k] = startFs[k]
        /\ \A k \in KeyOnlyFiles : ~PastStep(KeyStep(k)) => k \notin written
        /\ KeyOnlyCerts \cap written = {}

\* A run that created the client CA anew has replaced an existing key.
C22_Witness ==
    /\ RunOk /\ startFs[ClientKubeletKey].t = "key"
    /\ fs[ClientKubeletKey].t = "key" /\ fs[ClientKubeletKey] # startFs[ClientKubeletKey]
    /\ CreatedThisRun("client") /\ ~CreatedThisRun("server")
    /\ fs[ServingKubeletKey] = startFs[ServingKubeletKey]

\* When the run starts the leaf has its key and a readable certificate that is
\* not due for renewal and carries the signature of the CA that is still its
\* CA, and the CA whose flag the call passes was not created: what remains to
\* decide regeneration is fieldsChanged.
OnlyFieldsDecide(l) ==
    LET L == Leaves[l] IN
    /\ HasCert(startFs, L.crt) /\ startFs[L.key].t = "key"
    /\ CAUntouched(L.ca) /\ LeafAt(startFs, l).aki = CAAt(startFs, L.ca).ski
    /\ CAUntouched(IF l = "etcdserver" THEN "etcd-peer" ELSE L.ca)
    /\ ~InWindow(LeafAt(startFs, l), startNow)

\* C23: for a readable existing certificate fieldsChanged reports a change
\* when the common name differs or when the organization set differs from the
\* desired one in either direction (an extra or a missing organization; order
\* and duplicates do not count); SANs are compared by containment, so extra
\* SAN entries alone report no change.
C23_OrgEqualitySanContainment ==
    RunOk =>
        \A l \in LeafNames :
            OnlyFieldsDecide(l) =>
                LET L == Leaves[l]
                    c == LeafAt(startFs, l)
                IN IF c.cn # L.cn \/ c.org # L.org
                      \/ ~Contained(AltNamesOf(L.alt, cfg), c)
                   THEN /\ LeafRegenerated(l)
                        /\ LeafAt(fs, l).cn = L.cn /\ LeafAt(fs, l).org = L.org
                   ELSE LeafUntouched(l)

\* A leaf that differed only by an extra organization has been regenerated.
C23_Witness ==
    /\ RunOk /\ OnlyFieldsDecide("admin")
    /\ LeafAt(startFs, "admin").cn = Leaves.admin.cn
    /\ Leaves.admin.org \subseteq LeafAt(startFs, "admin").org
    /\ LeafAt(startFs, "admin").org # Leaves.admin.org
    /\ LeafRegenerated("admin")

\* A leaf that differed only by extra SAN entries and a repeated organization
\* was left alone.
C23_ExtraSansKept ==
    /\ RunOk /\ OnlyFieldsDecide("servingapi")
    /\ "extra.example" \in LeafAt(startFs, "servingapi").dns
    /\ LeafUntouched("servingapi")

\* The file is there and no certificate can be read from it.
UnreadableAt(f, file) ==
    f[file] # NoFile /\ ~(f[file].t = "certs" /\ Len(f[file].chain) > 0)

\* The CA whose wasCreated result the call for a leaf passes.
FlagCA(l) == IF l = "etcdserver" THEN "etcd-peer" ELSE Leaves[l].ca

\* C24: a leaf whose certificate file cannot be read, with its key file there
\* and the regeneration flag false, is left untouched by every run that gets
\* to it; so is a leaf with unchanged fields whose CA certificate cannot be
\* read.
C24_UnreadableNoSignal ==
    (run > 0 /\ InRun) =>
        \A l \in LeafNames :
            LET L == Leaves[l] IN
            (PastStep(LeafStep(l)) /\ Issued(l) /\ startFs[L.key] # NoFile
                 /\ CAPresent(FlagCA(l))) =>
                /\ UnreadableAt(startFs, L.crt) => LeafUntouched(l)
                /\ ( /\ UnreadableAt(startFs, CACert(L.ca)) /\ HasCert(startFs, L.crt)
                     /\ LeafAt(startFs, l).cn = L.cn /\ LeafAt(startFs, l).org = L.org
                     /\ Contained(AltNamesOf(L.alt, cfg), LeafAt(startFs, l))
                     /\ ~InWindow(LeafAt(startFs, l), startNow) ) => LeafUntouched(l)

\* The second run after the damage has ended and the certificate is as it was.
C24_Witness ==
    /\ RunOk /\ run > 2 /\ consec
    /\ UnreadableAt(startFs, Leaves.admin.crt) /\ LeafUntouched("admin")

\* A run has passed a leaf whose CA certificate cannot be read.
C24_UnreadableCA ==
    /\ RunOk /\ UnreadableAt(startFs, CACert("request-header"))
    /\ LeafUntouched("authproxy")

\* Regeneration is required for a leaf: the flag passed is true, or the
\* certificate the run found is due for renewal, or its fields or its
\* authority differ from what is asked for.
ReadableAt(f, file) == HasCert(f, file) /\ f[file].chain # <<>>
RegenRequired(l) ==
    LET L == Leaves[l] IN
    \/ CreatedThisRun(FlagCA(l))
    \/ /\ ReadableAt(startFs, L.crt)
       /\ \/ InWindow(LeafAt(startFs, l), startNow)
          \/ LeafAt(startFs, l).cn # L.cn \/ LeafAt(startFs, l).org # L.org
          \/ ~Contained(AltNamesOf(L.alt, cfg), LeafAt(startFs, l))
          \/ ReadableAt(fs, CACert(L.ca)) /\ LeafAt(startFs, l).aki # CAAt(fs, L.ca).ski

\* C25: a run that has returned from createClientCertKey for a leaf has
\* written nothing of the leaf when no regeneration was required and both
\* files were there; in every other case it has written the certificate, for
\* the key of the key file, and it has written the key exactly when
\* regeneration was required or the key file was missing.
C25_LeafWrites ==
    (run > 0 /\ InRun) =>
        \A l \in LeafNames :
            LET L == Leaves[l] IN
            (PastStep(LeafStep(l)) /\ Issued(l)) =>
                IF ~RegenRequired(l) /\ startFs[L.crt] # NoFile /\ startFs[L.key] # NoFile
                THEN LeafUntouched(l) /\ (L.kube # "" => L.kube \notin written)
                ELSE /\ L.crt \in written /\ HasCert(fs, L.crt) /\ fs[L.key].t = "key"
                     /\ LeafAt(fs, l).pub = fs[L.key].ids[1]
                     /\ L.key \in written <=> (RegenRequired(l) \/ startFs[L.key] = NoFile)
                     /\ L.key \in written => fs[L.key] # startFs[L.key]
                     /\ L.key \notin written => fs[L.key] = startFs[L.key]

\* A certificate that was missing has been issued for the key that was there.
C25_Witness ==
    /\ RunOk /\ startFs[Leaves.admin.crt] = NoFile /\ startFs[Leaves.admin.key].t = "key"
    /\ ~RegenRequired("admin")
    /\ Leaves.admin.crt \in written /\ fs[Leaves.admin.key] = startFs[Leaves.admin.key]
    /\ LeafAt(fs, "admin").pub = fs[Leaves.admin.key].ids[1]

\* The secret portion of a token of the form username:password, the token
\* itself otherwise.
SecretPortion(tok) == IF tok.user # "" /\ tok.pass # "" THEN Tok("", tok.pass) ELSE tok

\* C26: after genUsers the node secret is the agent token when one is
\* configured, else the secret portion of the server token the run resolved
\* (the whole token when it is not of the form username:password), whatever
\* node secret was stored before.
C26_NodeSecretSource ==
    RunOk =>
        /\ Usable(fs, "node") /\ Usable(fs, "server")
        /\ SecretOf(fs, "node") =
              IF cfg.AgentToken # EmptyTok THEN cfg.AgentToken
              ELSE SecretPortion(SecretOf(fs, "server"))

\* A stored node secret has been replaced by the secret portion of a supplied
\* username:password token.
C26_Witness ==
    /\ RunOk /\ Usable(startFs, "node") /\ SecretOf(startFs, "node") = LegacyNode
    /\ cfg.AgentToken = EmptyTok /\ cfg.Token = Tok("admin", "cluster-secret")
    /\ SecretOf(fs, "server") = cfg.Token
    /\ SecretOf(fs, "node") = Tok("", "cluster-secret")

\* The position of the service-account step.
ServiceAccountStep == CHOOSE i \in 1 .. NSteps : Prog[i].op = "serviceaccount"

\* C27: a run never writes a service-account signing key file it found and
\* creates the file when it found none; once genServiceAccount has returned
\* without error the current-key file has been written in the run and holds
\* exactly the first key of the signing key file.
C27_ServiceAccountKeys ==
    (run > 0 /\ InRun) =>
        /\ startFs[ServiceKey] # NoFile =>
                fs[ServiceKey] = startFs[ServiceKey] /\ ServiceKey \notin written
        /\ PastStep(ServiceAccountStep) =>
                /\ fs[ServiceKey].t = "key"
                /\ startFs[ServiceKey] = NoFile => ServiceKey \in written
                /\ ServiceCurrentKey \in written
                /\ fs[ServiceCurrentKey] = KeyFile(<<fs[ServiceKey].ids[1]>>)
        /\ ~PastStep(ServiceAccountStep) => ServiceCurrentKey \notin written

\* A run over a rotated signing key file has ended: the current-key file
\* holds the new first key and the signing key file holds all its keys.
C27_Witness ==
    /\ RunOk /\ startFs[ServiceKey].t = "key" /\ Len(startFs[ServiceKey].ids) > 1
    /\ fs[ServiceKey] = startFs[ServiceKey]
    /\ fs[ServiceCurrentKey] # startFs[ServiceCurrentKey]
    /\ fs[ServiceCurrentKey].ids = <<startFs[ServiceKey].ids[1]>>

\* The certificate of the leaf certifies the key of the leaf's key file.
KeyMatchesCert(f, l) ==
    (ReadableAt(f, Leaves[l].crt) /\ f[Leaves[l].key].t = "key") =>
        LeafAt(f, l).pub = f[Leaves[l].key].ids[1]

\* C28: after a successful run, whatever runs came before it and wherever
\* they were aborted, every leaf certificate on disk is there with its key
\* file, and its public key is the one of the key in that file.
C28_KeyMatchesCert ==
    RunOk =>
        \A l \in LeafNames :
            Issued(l) =>
                /\ ReadableAt(fs, Leaves[l].crt) /\ fs[Leaves[l].key].t = "key"
                /\ KeyMatchesCert(fs, l)

\* The part of C28 that holds: a leaf the successful run itself has issued
\* certifies the key of its key file.
C28_IssuedPairMatches ==
    RunOk => \A l \in LeafNames : Leaves[l].crt \in written => KeyMatchesCert(fs, l)

\* C29: with encryption enabled, after a successful run, whatever runs came
\* before it and wherever they were aborted, the hash record exists and is
\* "start-" followed by the SHA-256 of the bytes of the encryption
\* configuration file.
C29_HashMatchesConfig ==
    RunOk /\ cfg.EncryptSecrets =>
        /\ fs[EncryptionConfig].t = "json"
        /\ fs[EncryptionHash] = StartHashOf(fs[EncryptionConfig])

\* The part of C29 that holds: the hash record exists, and when it is not the
\* empty file a failed write left it is the record of the configuration.
C29_HashMatchesUnlessTorn ==
    RunOk /\ cfg.EncryptSecrets =>
        /\ fs[EncryptionConfig].t = "json" /\ fs[EncryptionHash] # NoFile
        /\ fs[EncryptionHash] # [t |-> "empty"] =>
              fs[EncryptionHash] = StartHashOf(fs[EncryptionConfig])

\* A successful run has backfilled the record after a run that was aborted
\* between the write of the configuration and the write of the record.
C29_BackfilledAfterAbort ==
    /\ RunOk /\ cfg.EncryptSecrets /\ run > 1
    /\ startFs[EncryptionConfig].t = "json" /\ startFs[EncryptionHash] = NoFile
    /\ fs[EncryptionHash] = StartHashOf(fs[EncryptionConfig])
====
